---- MODULE Spec2Model ----
(***************************************************************************)
(* State-machine model of the VotingSystem contract (src/unnamed/part_002) *)
(* Every public function is one action: a call either reverts (the whole   *)
(* contract state is left as it was and only the call record changes) or   *)
(* applies its full effect, internal calls included.  `last` holds the     *)
(* call just made and its outcome until its receipt is read, `emitted` the *)
(* events it logged, `now` the block timestamp.  uint256 arithmetic is     *)
(* checked (pragma ^0.8.19); the values met here stay far below 2^256, so  *)
(* no addition overflows and integers are used as they are.                *)
(***************************************************************************)
EXTENDS Integers, Sequences, FiniteSets, TLC

\* ------------------------------------------------------------------ bounds
\* candidates over all elections, and the last block timestamp
MaxCandidates == 6
MaxNow == 1800
\* candidates added by name in the specification with distinct names
MaxNamed == 3

\* ------------------------------------------------------------------ inputs
Deployer == "admin"
Addresses == {"admin", "v1"}
Names == {"Alice"}
DistinctNames == {"Alice", "Bob"}
\* the elections the admin creates, one per title
Titles == {<<"T">>}
Descriptions == {<<"D">>}
DurationsInMinutes == {5, 10}
TickSteps == {600}

\* each created election spawns one runoff at most; one id stays unused
MaxElections == 2 * Cardinality(Titles) + 1
ElectionIds == 0..MaxElections
CandidateIds == 0..MaxCandidates

\* ------------------------------------------------------- program constants
SecondsPerMinute == 60
RunoffBreak == 300

\* revert reasons of the require statements
OnlyAdmin == "Only admin can perform this action"
NotRegistered == "You must be a registered voter"
NotFound == "Election does not exist"
NotStarted == "Election has not started yet"
Ended == "Election has ended"
ElectionFinalized == "Election has been finalized"
CannotAddFinalized == "Cannot add candidates to finalized election"
StillActive == "Election is still active"
AlreadyFinalized == "Election already finalized"
NeedTwoCandidates == "Need at least 2 candidates for runoff"
AlreadyRegistered == "You are already registered"
AlreadyVoted == "You have already voted in this election"
CandidateNotFound == "Candidate does not exist"
NotFinalized == "Election must be finalized"

VARIABLES admin, electionCounter, candidateCounter, elections, candidates,
          electionCandidates, hasVoted, registeredVoters, now, last, emitted,
          voteCastLog, ui

\* ui is the state of the voting page of the front end: its useState
\* fields, the await the handler in flight stands at (pc), the await that
\* settled last (awaited) and what it gave (settled)

\* the storage of the contract
storage == <<admin, electionCounter, candidateCounter, elections, candidates,
             electionCandidates, hasVoted, registeredVoters>>
vars == <<admin, electionCounter, candidateCounter, elections, candidates,
          electionCandidates, hasVoted, registeredVoters, now, last, emitted,
          voteCastLog, ui>>

\* zero values of the two structs (what an unwritten mapping slot reads as)
NoCandidate == [id |-> 0, name |-> "", voteCount |-> 0, exists |-> FALSE,
                advancedToRunoff |-> FALSE]
NoElection == [id |-> 0, title |-> <<>>, description |-> <<>>, startTime |-> 0,
               endTime |-> 0, exists |-> FALSE, finalized |-> FALSE,
               isRunoff |-> FALSE, parentElectionId |-> 0,
               runoffElectionId |-> 0, requiresRunoff |-> FALSE]

\* what a VoteCast event carries: voter, electionId, candidateId
Ballots == Addresses \X ElectionIds \X CandidateIds

NoCall == [op |-> "none", reverted |-> FALSE, reason |-> ""]

\* the front end as the component is mounted: the useState defaults, no call
\* of the component in flight and nothing awaited yet
Null == "null"
NoError == <<>>
NoSettled ==
    [threw |-> FALSE, isError |-> FALSE, message |-> <<>>, value |-> FALSE]
NoUi ==
    [account |-> Null, contract |-> FALSE, isRegistered |-> FALSE,
     hasVoted |-> FALSE, isLoading |-> FALSE, error |-> NoError,
     pc |-> "idle", awaited |-> "none", settled |-> NoSettled]

Init ==
    /\ admin = Deployer
    /\ electionCounter = 0
    /\ candidateCounter = 0
    /\ elections = [e \in ElectionIds |-> NoElection]
    /\ candidates = [e \in ElectionIds |-> [c \in CandidateIds |-> NoCandidate]]
    /\ electionCandidates = [e \in ElectionIds |-> <<>>]
    /\ hasVoted = [a \in Addresses |-> [e \in ElectionIds |-> FALSE]]
    /\ registeredVoters = [a \in Addresses |-> FALSE]
    /\ now = 0
    /\ last = NoCall
    /\ emitted = <<>>
    /\ voteCastLog = [b \in Ballots |-> 0]
    /\ ui = NoUi

\* mutant: the flag finalizeElection wrote before the resolver's require
\* failed survives the revert
Revert_KeepsFinalized(call, why) ==
    /\ last' = [call EXCEPT !.reverted = TRUE, !.reason = why]
    /\ emitted' = <<>>
    /\ IF call.op = "finalizeElection" /\ why = NeedTwoCandidates
       THEN /\ elections' = [elections EXCEPT
                                ![call.electionId].finalized = TRUE]
            /\ UNCHANGED <<admin, electionCounter, candidateCounter,
                           candidates, electionCandidates, hasVoted,
                           registeredVoters, now, voteCastLog, ui>>
       ELSE UNCHANGED <<storage, now, voteCastLog, ui>>

\* a require that fails: the transaction reverts, storage and logs untouched
Revert(call, why) ==
    /\ last' = [call EXCEPT !.reverted = TRUE, !.reason = why]
    /\ emitted' = <<>>
    /\ UNCHANGED <<storage, now, voteCastLog, ui>>

\* the block timestamp moves on (it never goes back)
Tick ==
    /\ last = NoCall
    /\ \E d \in TickSteps :
          /\ now + d <= MaxNow
          /\ now' = now + d
    /\ last' = NoCall
    /\ emitted' = <<>>
    /\ UNCHANGED <<storage, voteCastLog, ui>>

\* the outcome of the call has been read; the next transaction can be sent
Receipt ==
    /\ last # NoCall
    /\ last' = NoCall
    /\ emitted' = <<>>
    /\ UNCHANGED <<storage, now, voteCastLog, ui>>

\* the titles createElection has been given so far
UsedTitles ==
    {elections[e].title : e \in {x \in ElectionIds : elections[x].exists
                                                     /\ ~elections[x].isRunoff}}

\* mutant: the counter is advanced twice
NextId_Skip(counter) == counter + 2

\* mutant: the counter is read without being advanced
NextId_Same(counter) == counter

\* electionCounter++ and candidateCounter++: the id the new entry takes
NextId(counter) == counter + 1

\* mutant: the modifier lets every caller through
onlyAdmin_Anyone(sender) == TRUE

\* the test of the onlyAdmin modifier
onlyAdmin(sender) == sender = admin

\* ------------------------------------------------------------ createElection
\* mutant: the argument is taken as seconds
ElectionEndTime_Seconds(startTime, durationInMinutes) ==
    startTime + durationInMinutes

\* the end of the window: the duration argument counts minutes
ElectionEndTime(startTime, durationInMinutes) ==
    startTime + (durationInMinutes * SecondsPerMinute)

createElection(sender, title, description, durationInMinutes) ==
    LET call == [op |-> "createElection", sender |-> sender, title |-> title,
                 description |-> description,
                 durationInMinutes |-> durationInMinutes,
                 reverted |-> FALSE, reason |-> ""]
        startTime == now
        endTime == ElectionEndTime(startTime, durationInMinutes)
        newId == NextId(electionCounter)
    IN  IF ~onlyAdmin(sender) THEN Revert(call, OnlyAdmin)
        ELSE /\ title \notin UsedTitles
             /\ electionCounter' = newId
             /\ elections' = [elections EXCEPT ![newId] =
                   [id |-> newId, title |-> title, description |-> description,
                    startTime |-> startTime, endTime |-> endTime,
                    exists |-> TRUE, finalized |-> FALSE, isRunoff |-> FALSE,
                    parentElectionId |-> 0, runoffElectionId |-> 0,
                    requiresRunoff |-> FALSE]]
             /\ emitted' = <<[name |-> "ElectionCreated", electionId |-> newId,
                              title |-> title, startTime |-> startTime,
                              endTime |-> endTime]>>
             /\ last' = call
             /\ UNCHANGED <<admin, candidateCounter, candidates,
                            electionCandidates, hasVoted, registeredVoters, now,
                            voteCastLog, ui>>

\* -------------------------------------------------------------- addCandidate
\* mutant: the test is left out
NotFinalizedYet_Always(electionId) == TRUE

\* the test of addCandidate's own require
NotFinalizedYet(electionId) == ~elections[electionId].finalized

\* mutant: the new candidate starts with one vote
NewCandidate_OneVote(newId, name) ==
    [id |-> newId, name |-> name, voteCount |-> 1,
     exists |-> TRUE, advancedToRunoff |-> FALSE]

\* the Candidate addCandidate writes
NewCandidate(newId, name) ==
    [id |-> newId, name |-> name, voteCount |-> 0,
     exists |-> TRUE, advancedToRunoff |-> FALSE]

addCandidate(sender, electionId, name) ==
    LET call == [op |-> "addCandidate", sender |-> sender,
                 electionId |-> electionId, name |-> name,
                 reverted |-> FALSE, reason |-> ""]
        newId == NextId(candidateCounter)
    IN  IF ~onlyAdmin(sender) THEN Revert(call, OnlyAdmin)
        ELSE IF ~elections[electionId].exists THEN Revert(call, NotFound)
        ELSE IF ~NotFinalizedYet(electionId)
             THEN Revert(call, CannotAddFinalized)
        ELSE /\ candidateCounter < MaxCandidates
             /\ candidateCounter' = newId
             /\ candidates' = [candidates EXCEPT ![electionId][newId] =
                   NewCandidate(newId, name)]
             /\ electionCandidates' = [electionCandidates EXCEPT
                   ![electionId] = Append(@, newId)]
             /\ emitted' = <<[name |-> "CandidateAdded",
                              electionId |-> electionId,
                              candidateId |-> newId, candidateName |-> name]>>
             /\ last' = call
             /\ UNCHANGED <<admin, electionCounter, elections, hasVoted,
                            registeredVoters, now, voteCastLog, ui>>

\* ------------------------------------------------------------ registerToVote
\* mutant: the caller is registered again without the test
registerToVote_NoTest(sender) ==
    LET call == [op |-> "registerToVote", sender |-> sender,
                 reverted |-> FALSE, reason |-> ""]
    IN  /\ registeredVoters' = [registeredVoters EXCEPT ![sender] = TRUE]
        /\ emitted' = <<[name |-> "VoterRegistered", voter |-> sender]>>
        /\ last' = call
        /\ UNCHANGED <<admin, electionCounter, candidateCounter, elections,
                       candidates, electionCandidates, hasVoted, now,
                       voteCastLog, ui>>

registerToVote(sender) ==
    LET call == [op |-> "registerToVote", sender |-> sender,
                 reverted |-> FALSE, reason |-> ""]
    IN  IF registeredVoters[sender] THEN Revert(call, AlreadyRegistered)
        ELSE /\ registeredVoters' = [registeredVoters EXCEPT ![sender] = TRUE]
             /\ emitted' = <<[name |-> "VoterRegistered", voter |-> sender]>>
             /\ last' = call
             /\ UNCHANGED <<admin, electionCounter, candidateCounter, elections,
                            candidates, electionCandidates, hasVoted, now,
                            voteCastLog, ui>>

\* ---------------------------------------------------------------------- vote
\* mutant: the modifier lets every caller through
onlyRegisteredVoter_Anyone(sender) == TRUE

\* the test of the onlyRegisteredVoter modifier
onlyRegisteredVoter(sender) == registeredVoters[sender]

\* mutant: the last second of the window is shut out
electionActive_EndExclusive(electionId) ==
    IF ~elections[electionId].exists THEN NotFound
    ELSE IF ~(now >= elections[electionId].startTime) THEN NotStarted
    ELSE IF ~(now < elections[electionId].endTime) THEN Ended
    ELSE IF elections[electionId].finalized THEN ElectionFinalized
    ELSE ""

\* mutant: only the existence of the election is tested
electionActive_ExistsOnly(electionId) ==
    IF ~elections[electionId].exists THEN NotFound
    ELSE ""

\* mutant: the finalized flag is looked at before the time window
electionActive_FinalizedFirst(electionId) ==
    IF ~elections[electionId].exists THEN NotFound
    ELSE IF elections[electionId].finalized THEN ElectionFinalized
    ELSE IF ~(now >= elections[electionId].startTime) THEN NotStarted
    ELSE IF ~(now <= elections[electionId].endTime) THEN Ended
    ELSE ""

\* the electionActive modifier: the reason of its first failing require,
\* or "" when all four pass
electionActive(electionId) ==
    IF ~elections[electionId].exists THEN NotFound
    ELSE IF ~(now >= elections[electionId].startTime) THEN NotStarted
    ELSE IF ~(now <= elections[electionId].endTime) THEN Ended
    ELSE IF elections[electionId].finalized THEN ElectionFinalized
    ELSE ""

\* mutant: a vote in any election counts as a vote in this one
HasAlreadyVoted_AnyElection(sender, electionId) ==
    \E e \in ElectionIds : hasVoted[sender][e]

\* mutant: the double-vote test left out
HasAlreadyVoted_Skipped(sender, electionId) == FALSE

\* the double-vote test
HasAlreadyVoted(sender, electionId) == hasVoted[sender][electionId]

\* mutant: the tally is set to one instead of raised by one
CastVote_SetToOne(electionId, candidateId) ==
    [candidates EXCEPT ![electionId][candidateId].voteCount = 1]

\* mutant: the vote fact is not recorded
MarkVoted_Forgets(sender, electionId) == hasVoted

\* the vote facts after the vote is recorded
MarkVoted(sender, electionId) ==
    [hasVoted EXCEPT ![sender][electionId] = TRUE]

\* mutant: the vote is counted twice
CastVote_Twice(electionId, candidateId) ==
    [candidates EXCEPT ![electionId][candidateId].voteCount = @ + 2]

\* the tally after the vote is counted
CastVote(electionId, candidateId) ==
    [candidates EXCEPT ![electionId][candidateId].voteCount = @ + 1]

vote(sender, electionId, candidateId) ==
    LET call == [op |-> "vote", sender |-> sender, electionId |-> electionId,
                 candidateId |-> candidateId, reverted |-> FALSE, reason |-> ""]
    IN  IF ~onlyRegisteredVoter(sender) THEN Revert(call, NotRegistered)
        ELSE IF electionActive(electionId) # ""
             THEN Revert(call, electionActive(electionId))
        ELSE IF HasAlreadyVoted(sender, electionId)
             THEN Revert(call, AlreadyVoted)
        ELSE IF ~candidates[electionId][candidateId].exists
             THEN Revert(call, CandidateNotFound)
        ELSE /\ hasVoted' = MarkVoted(sender, electionId)
             /\ candidates' = CastVote(electionId, candidateId)
             /\ voteCastLog' = [voteCastLog EXCEPT
                   ![<<sender, electionId, candidateId>>] = @ + 1]
             /\ emitted' = <<[name |-> "VoteCast", voter |-> sender,
                              electionId |-> electionId,
                              candidateId |-> candidateId]>>
             /\ last' = call
             /\ UNCHANGED <<admin, electionCounter, candidateCounter, elections,
                            electionCandidates, registeredVoters, now, ui>>

\* ---------------------------------------------------------- finalizeElection
\* first loop of _getTopCandidates: the highest vote count from index i on
RECURSIVE FindHighestVotes(_, _, _)
FindHighestVotes(electionId, i, highestVotes) ==
    LET candidateIds == electionCandidates[electionId]
    IN  IF i > Len(candidateIds) THEN highestVotes
        ELSE LET voteCount == candidates[electionId][candidateIds[i]].voteCount
             IN  FindHighestVotes(electionId, i + 1,
                    IF voteCount > highestVotes THEN voteCount
                    ELSE highestVotes)

\* second loop of _getTopCandidates: fills topCandidates from the left
RECURSIVE CollectTopCandidates(_, _, _, _, _)
CollectTopCandidates(electionId, i, highestVotes, topCandidates, topCount) ==
    LET candidateIds == electionCandidates[electionId]
    IN  IF i > Len(candidateIds)
        THEN [topCandidates |-> topCandidates, topCount |-> topCount]
        ELSE IF candidates[electionId][candidateIds[i]].voteCount = highestVotes
             THEN CollectTopCandidates(electionId, i + 1, highestVotes,
                     [topCandidates EXCEPT ![topCount + 1] = candidateIds[i]],
                     topCount + 1)
             ELSE CollectTopCandidates(electionId, i + 1, highestVotes,
                     topCandidates, topCount)

\* topCandidates is allocated with one zeroed slot per candidate
\* mutant: the highest vote count found is not used for collecting
_getTopCandidates_FromZero(electionId) ==
    LET candidateIds == electionCandidates[electionId]
        highestVotes == FindHighestVotes(electionId, 1, 0)
        top == CollectTopCandidates(electionId, 1, 0,
                  [k \in 1..Len(candidateIds) |-> 0], 0)
    IN  [highestVotes |-> highestVotes, topCandidates |-> top.topCandidates,
         topCount |-> top.topCount]

\* mutant: the top candidates come out last first
_getTopCandidates_Reversed(electionId) ==
    LET candidateIds == electionCandidates[electionId]
        highestVotes == FindHighestVotes(electionId, 1, 0)
        top == CollectTopCandidates(electionId, 1, highestVotes,
                  [k \in 1..Len(candidateIds) |-> 0], 0)
    IN  [highestVotes |-> highestVotes,
         topCandidates |->
            [k \in 1..Len(candidateIds) |->
                IF k <= top.topCount
                THEN top.topCandidates[top.topCount + 1 - k]
                ELSE 0],
         topCount |-> top.topCount]

\* mutant: candidates without votes are never top candidates
_getTopCandidates_NoZero(electionId) ==
    LET candidateIds == electionCandidates[electionId]
        highestVotes == FindHighestVotes(electionId, 1, 0)
        top == CollectTopCandidates(electionId, 1, highestVotes,
                  [k \in 1..Len(candidateIds) |-> 0], 0)
    IN  IF highestVotes = 0
        THEN [highestVotes |-> 0,
              topCandidates |-> [k \in 1..Len(candidateIds) |-> 0],
              topCount |-> 0]
        ELSE [highestVotes |-> highestVotes,
              topCandidates |-> top.topCandidates, topCount |-> top.topCount]

_getTopCandidates(electionId) ==
    LET candidateIds == electionCandidates[electionId]
        highestVotes == FindHighestVotes(electionId, 1, 0)
        top == CollectTopCandidates(electionId, 1, highestVotes,
                  [k \in 1..Len(candidateIds) |-> 0], 0)
    IN  [highestVotes |-> highestVotes, topCandidates |-> top.topCandidates,
         topCount |-> top.topCount]

\* mutant: the runoff candidate starts with the tally of the parent's
RunoffCandidate_KeepsVotes(newId, parentCandidate) ==
    [id |-> newId, name |-> parentCandidate.name,
     voteCount |-> parentCandidate.voteCount,
     exists |-> TRUE, advancedToRunoff |-> TRUE]

\* the Candidate written into the runoff for a tied candidate of the parent
RunoffCandidate(newId, parentCandidate) ==
    [id |-> newId, name |-> parentCandidate.name, voteCount |-> 0,
     exists |-> TRUE, advancedToRunoff |-> TRUE]

\* the loop of _addRunoffCandidates from index i on; st carries the
\* candidateCounter, candidates and electionCandidates written so far
RECURSIVE _addRunoffCandidates(_, _, _, _, _, _)
_addRunoffCandidates(runoffId, parentElectionId, topCandidates, candidateCount, i, st) ==
    IF i > candidateCount THEN st
    ELSE LET newId == NextId(st.candidateCounter)
             cands1 == [st.candidates EXCEPT ![runoffId][newId] =
                          RunoffCandidate(newId,
                             st.candidates[parentElectionId][topCandidates[i]])]
             cands2 == [cands1 EXCEPT
                          ![parentElectionId][topCandidates[i]].advancedToRunoff
                             = TRUE]
         IN  _addRunoffCandidates(runoffId, parentElectionId, topCandidates,
                candidateCount, i + 1,
                [candidateCounter |-> newId,
                 candidates |-> cands2,
                 electionCandidates |-> [st.electionCandidates EXCEPT
                                           ![runoffId] = Append(@, newId)]])

\* mutant: the runoff starts at once
RunoffStartTime_NoBreak == now

\* the runoff starts after the break
RunoffStartTime == now + RunoffBreak

RunoffDuration(parentElection) ==
    parentElection.endTime - parentElection.startTime

\* the Election written for the runoff
\* mutant: the runoff does not record its parent
RunoffElection_NoParent(runoffId, parentElection, parentElectionId) ==
    [id |-> runoffId,
     title |-> parentElection.title \o <<" - Runoff">>,
     description |-> <<"Runoff election for: ">> \o parentElection.description,
     startTime |-> RunoffStartTime,
     endTime |-> RunoffStartTime + RunoffDuration(parentElection),
     exists |-> TRUE, finalized |-> FALSE, isRunoff |-> TRUE,
     parentElectionId |-> 0, runoffElectionId |-> 0,
     requiresRunoff |-> FALSE]

RunoffElection(runoffId, parentElection, parentElectionId) ==
    [id |-> runoffId,
     title |-> parentElection.title \o <<" - Runoff">>,
     description |-> <<"Runoff election for: ">> \o parentElection.description,
     startTime |-> RunoffStartTime,
     endTime |-> RunoffStartTime + RunoffDuration(parentElection),
     exists |-> TRUE, finalized |-> FALSE, isRunoff |-> TRUE,
     parentElectionId |-> parentElectionId, runoffElectionId |-> 0,
     requiresRunoff |-> FALSE]

\* _createRunoffElection run on storage st (elections already carries the
\* parent's finalized = true); yields the storage it leaves and its logs
_createRunoffElection(st, parentElectionId, topCandidates, candidateCount) ==
    LET runoffId == NextId(st.electionCounter)
        parentElection == st.elections[parentElectionId]
        runoff == RunoffElection(runoffId, parentElection, parentElectionId)
        els1 == [st.elections EXCEPT ![runoffId] = runoff]
        els2 == [els1 EXCEPT ![parentElectionId].runoffElectionId = runoffId]
        added == _addRunoffCandidates(runoffId, parentElectionId, topCandidates,
                    candidateCount, 1,
                    [candidateCounter |-> st.candidateCounter,
                     candidates |-> st.candidates,
                     electionCandidates |-> st.electionCandidates])
    IN  [reverted |-> FALSE, reason |-> "", ret |-> TRUE,
         electionCounter |-> runoffId,
         elections |-> els2,
         candidateCounter |-> added.candidateCounter,
         candidates |-> added.candidates,
         electionCandidates |-> added.electionCandidates,
         emitted |-> <<[name |-> "RunoffRequired",
                        originalElectionId |-> parentElectionId,
                        runoffElectionId |-> runoffId],
                       [name |-> "ElectionCreated", electionId |-> runoffId,
                        title |-> els2[runoffId].title,
                        startTime |-> runoff.startTime,
                        endTime |-> runoff.endTime]>>]

\* mutant: a tie needs three candidates
IsTie_Three(topCount) == topCount > 2

\* mutant: a single leader counts as a tie
IsTie_Single(topCount) == topCount > 0

\* the tie test of _checkAndCreateRunoff
IsTie(topCount) == topCount > 1

\* mutant: true is returned when no runoff was created, too
_checkAndCreateRunoff_ReturnsTrue(st, electionId) ==
    LET candidateIds == st.electionCandidates[electionId]
        top == _getTopCandidates(electionId)
        same == [reverted |-> FALSE, reason |-> "", ret |-> FALSE,
                 electionCounter |-> st.electionCounter,
                 elections |-> st.elections,
                 candidateCounter |-> st.candidateCounter,
                 candidates |-> st.candidates,
                 electionCandidates |-> st.electionCandidates,
                 emitted |-> <<>>]
    IN  IF ~(Len(candidateIds) >= 2)
        THEN [same EXCEPT !.reverted = TRUE, !.reason = NeedTwoCandidates]
        ELSE IF IsTie(top.topCount)
             THEN _createRunoffElection(st, electionId, top.topCandidates,
                                        top.topCount)
             ELSE [same EXCEPT !.ret = TRUE]

_checkAndCreateRunoff(st, electionId) ==
    LET candidateIds == st.electionCandidates[electionId]
        top == _getTopCandidates(electionId)
        same == [reverted |-> FALSE, reason |-> "", ret |-> FALSE,
                 electionCounter |-> st.electionCounter,
                 elections |-> st.elections,
                 candidateCounter |-> st.candidateCounter,
                 candidates |-> st.candidates,
                 electionCandidates |-> st.electionCandidates,
                 emitted |-> <<>>]
    IN  IF ~(Len(candidateIds) >= 2)
        THEN [same EXCEPT !.reverted = TRUE, !.reason = NeedTwoCandidates]
        ELSE IF IsTie(top.topCount)
             THEN _createRunoffElection(st, electionId, top.topCandidates,
                                        top.topCount)
             ELSE same

\* mutant: runoffs are handed to the runoff logic too
ChecksRunoff_Always(election) == TRUE

\* whether finalizeElection hands the election to the runoff logic
ChecksRunoff(election) == ~election.isRunoff

\* the ids a runoff of electionId would take stay within the modelled ranges
FitsBounds(electionId) ==
    LET top == _getTopCandidates(electionId)
    IN  (/\ ChecksRunoff(elections[electionId])
         /\ Len(electionCandidates[electionId]) >= 2
         /\ IsTie(top.topCount))
        => (/\ electionCounter + 1 <= MaxElections
            /\ candidateCounter + top.topCount <= MaxCandidates)

\* mutant: the end time itself counts as past
PastEnd_Inclusive(electionId) == now >= elections[electionId].endTime

\* the time check of finalizeElection
PastEnd(electionId) == now > elections[electionId].endTime

\* mutant: the event always reports that no runoff is required
ElectionFinalizedEvent_NoRunoff(electionId, runoffRequired) ==
    [name |-> "ElectionFinalized", electionId |-> electionId,
     runoffRequired |-> FALSE]

\* the event finalizeElection emits
ElectionFinalizedEvent(electionId, runoffRequired) ==
    [name |-> "ElectionFinalized", electionId |-> electionId,
     runoffRequired |-> runoffRequired]

\* mutant: the test is left out
IsFinalized_Never(electionId) == FALSE

\* the test of finalizeElection's second require
IsFinalized(electionId) == elections[electionId].finalized

finalizeElection(sender, electionId) ==
    LET call == [op |-> "finalizeElection", sender |-> sender,
                 electionId |-> electionId, reverted |-> FALSE, reason |-> ""]
        st0 == [electionCounter |-> electionCounter,
                elections |-> [elections EXCEPT ![electionId].finalized = TRUE],
                candidateCounter |-> candidateCounter,
                candidates |-> candidates,
                electionCandidates |-> electionCandidates]
        res == IF ChecksRunoff(st0.elections[electionId])
               THEN _checkAndCreateRunoff(st0, electionId)
               ELSE [reverted |-> FALSE, reason |-> "", ret |-> FALSE,
                     electionCounter |-> st0.electionCounter,
                     elections |-> st0.elections,
                     candidateCounter |-> st0.candidateCounter,
                     candidates |-> st0.candidates,
                     electionCandidates |-> st0.electionCandidates,
                     emitted |-> <<>>]
        runoffRequired == res.ret
    IN  IF ~onlyAdmin(sender) THEN Revert(call, OnlyAdmin)
        ELSE IF ~elections[electionId].exists THEN Revert(call, NotFound)
        ELSE IF ~PastEnd(electionId) THEN Revert(call, StillActive)
        ELSE IF IsFinalized(electionId)
             THEN Revert(call, AlreadyFinalized)
        ELSE IF ~FitsBounds(electionId) THEN FALSE
        ELSE IF res.reverted THEN Revert(call, res.reason)
        ELSE /\ electionCounter' = res.electionCounter
             /\ candidateCounter' = res.candidateCounter
             /\ elections' = [res.elections EXCEPT
                                ![electionId].requiresRunoff = runoffRequired]
             /\ candidates' = res.candidates
             /\ electionCandidates' = res.electionCandidates
             /\ emitted' = res.emitted \o
                   <<ElectionFinalizedEvent(electionId, runoffRequired)>>
             /\ last' = call
             /\ UNCHANGED <<admin, hasVoted, registeredVoters, now, voteCastLog,
                            ui>>

\* ------------------------------------------------------------ specification
\* the ids a caller passes: every id in use, the unset id 0 and the next id
ElectionArgs == {e \in ElectionIds : e <= electionCounter + 1}
CandidateArgs == {c \in CandidateIds : c <= candidateCounter + 1}

CreateElectionCall ==
    /\ last = NoCall
    /\ \E sender \in Addresses, title \in Titles, description \in Descriptions,
       durationInMinutes \in DurationsInMinutes :
       createElection(sender, title, description, durationInMinutes)

AddCandidateCall ==
    /\ last = NoCall
    /\ \E sender \in Addresses, electionId \in ElectionArgs, name \in Names :
       addCandidate(sender, electionId, name)

RegisterToVoteCall ==
    /\ last = NoCall
    /\ \E sender \in Addresses : registerToVote(sender)

VoteCall ==
    /\ last = NoCall
    /\ \E sender \in Addresses, electionId \in ElectionArgs,
       candidateId \in CandidateArgs : vote(sender, electionId, candidateId)

FinalizeElectionCall ==
    /\ last = NoCall
    /\ \E sender \in Addresses, electionId \in ElectionArgs :
       finalizeElection(sender, electionId)

Next ==
    \/ Tick
    \/ Receipt
    \/ CreateElectionCall
    \/ AddCandidateCall
    \/ RegisterToVoteCall
    \/ VoteCall
    \/ FinalizeElectionCall

Spec == Init /\ [][Next]_vars

\* a second specification in which the candidates of an election can be
\* told apart by name; addCandidate is sent for the first MaxNamed ids only
AddNamedCandidateCall ==
    /\ last = NoCall
    /\ candidateCounter < MaxNamed
    /\ \E sender \in Addresses, electionId \in ElectionArgs,
       name \in DistinctNames :
       addCandidate(sender, electionId, name)

NextNamed ==
    \/ Tick
    \/ Receipt
    \/ CreateElectionCall
    \/ AddNamedCandidateCall
    \/ RegisterToVoteCall
    \/ VoteCall
    \/ FinalizeElectionCall

SpecNamed == Init /\ [][NextNamed]_vars

\* --------------------------------------------------------------- type check
TypeOK ==
    /\ admin \in Addresses
    /\ electionCounter \in 0..MaxElections
    /\ candidateCounter \in 0..MaxCandidates
    /\ now \in 0..MaxNow
    /\ \A e \in ElectionIds : elections[e].exists = (1 <= e /\ e <= electionCounter)
    /\ \A b \in Ballots : voteCastLog[b] \in 0..1

\* ------------------------------------------------------------ claim helpers
\* the candidates of an election, its highest tally and those who have it
CandidateSet(e) ==
    {electionCandidates[e][i] : i \in 1..Len(electionCandidates[e])}

MaxVotes(e) ==
    IF CandidateSet(e) = {} THEN 0
    ELSE CHOOSE m \in {candidates[e][c].voteCount : c \in CandidateSet(e)} :
            \A c \in CandidateSet(e) : candidates[e][c].voteCount <= m

Tied(e) == {c \in CandidateSet(e) : candidates[e][c].voteCount = MaxVotes(e)}

IsTied(e, c) == candidates[e][c].voteCount = MaxVotes(e)

\* the tied candidates in the order of the election's list
TiedInOrder(e) ==
    LET ids == electionCandidates[e]
        F[i \in 0..Len(ids)] ==
            IF i = 0 THEN <<>>
            ELSE IF IsTied(e, ids[i]) THEN Append(F[i - 1], ids[i])
            ELSE F[i - 1]
    IN  F[Len(ids)]

RECURSIVE SumVotes(_, _)
SumVotes(e, i) ==
    IF i > Len(electionCandidates[e]) THEN 0
    ELSE candidates[e][electionCandidates[e][i]].voteCount + SumVotes(e, i + 1)

Voters(e) == {v \in Addresses : hasVoted[v][e]}

\* this step is a call of op
CallOf(op) == last = NoCall /\ last'.op = op

\* this step is a vote of v in election e
VoteBy(v, e) ==
    CallOf("vote") /\ last'.sender = v /\ last'.electionId = e

\* this step is finalizeElection(e) sent by the admin
FinalizeByAdmin(e) ==
    CallOf("finalizeElection") /\ last'.sender = admin /\ last'.electionId = e

\* this step is a finalizeElection(e) that went through
Finalized(e) == FinalizeByAdmin(e) /\ ~last'.reverted

\* the state is the one a finalizeElection(e) that went through has left
JustFinalized(e) ==
    /\ last.op = "finalizeElection"
    /\ ~last.reverted
    /\ last.electionId = e

\* ------------------------------------------------------------------- claims
\* C1: in every reachable state and for every election, the vote counts of
\* its candidates add up to the number of identities with a vote fact for it.
C1_TallyEqualsVoters ==
    \A e \in ElectionIds : SumVotes(e, 1) = Cardinality(Voters(e))

C1_Witness ==
    \E e \in ElectionIds :
        /\ Cardinality(Voters(e)) = 2
        /\ SumVotes(e, 1) = 2

\* C2 as stated: once v has voted in e, every later vote of v in e fails with
\* AlreadyVoted and changes no vote count.
C2_Original ==
    [][\A v \in Addresses, e \in ElectionIds :
          (hasVoted[v][e] /\ VoteBy(v, e))
          => (/\ last'.reverted
              /\ last'.reason = AlreadyVoted
              /\ candidates' = candidates)]_vars

\* C2 amended: once v has voted in e, every later vote of v in e fails and
\* changes no vote count; it fails with AlreadyVoted while now <= endTime and
\* with Ended once now > endTime.
C2_SecondVoteFails ==
    [][\A v \in Addresses, e \in ElectionIds :
          (hasVoted[v][e] /\ VoteBy(v, e))
          => (/\ last'.reverted
              /\ last'.reason = (IF now <= elections[e].endTime
                                 THEN AlreadyVoted ELSE Ended)
              /\ candidates' = candidates
              /\ hasVoted' = hasVoted)]_vars

C2_Witness ==
    /\ last.op = "vote"
    /\ last.reverted
    /\ last.reason = AlreadyVoted
    /\ candidates[last.electionId][last.candidateId].exists
    /\ candidates[last.electionId][last.candidateId].voteCount = 0

\* C3: finalizeElection by the admin on an existing election at now <= endTime
\* (now = endTime included) fails with StillActive and changes no state.
C3_FinalizeBeforeEnd ==
    [][\A e \in ElectionIds :
          (/\ FinalizeByAdmin(e)
           /\ elections[e].exists
           /\ now <= elections[e].endTime)
          => (/\ last'.reverted
              /\ last'.reason = StillActive
              /\ UNCHANGED storage)]_vars

C3_Witness ==
    /\ last.op = "finalizeElection"
    /\ last.sender = admin
    /\ last.reason = StillActive
    /\ now = elections[last.electionId].endTime

\* C4: finalizeElection by the admin on an existing election that is not
\* finalized, at now > endTime, succeeds whatever the number of candidates.
C4_FinalizeAfterEndSucceeds ==
    [][\A e \in ElectionIds :
          (/\ FinalizeByAdmin(e)
           /\ elections[e].exists
           /\ ~elections[e].finalized
           /\ now > elections[e].endTime)
          => ~last'.reverted]_vars

\* C5: a finalizeElection that goes through on a non-runoff election p with at
\* least 2 candidates at the highest tally creates exactly one election r, a
\* runoff, not finalized, with parent p; p then names r and requires a runoff.
C5_TieSpawnsOneRunoff ==
    [][\A p \in ElectionIds :
          (Finalized(p) /\ ~elections[p].isRunoff /\ Cardinality(Tied(p)) >= 2)
          => LET r == electionCounter + 1
             IN  /\ electionCounter' = r
                 /\ \A e \in ElectionIds :
                       elections'[e].exists = (elections[e].exists \/ e = r)
                 /\ ~elections[r].exists
                 /\ elections'[r].id = r
                 /\ elections'[r].isRunoff
                 /\ ~elections'[r].finalized
                 /\ elections'[r].parentElectionId = elections[p].id
                 /\ elections'[p].runoffElectionId = elections'[r].id
                 /\ elections'[p].requiresRunoff]_vars

C5_Witness ==
    \E p \in ElectionIds :
        /\ JustFinalized(p)
        /\ elections[p].requiresRunoff
        /\ elections[elections[p].runoffElectionId].isRunoff
        /\ MaxVotes(p) = 1

\* C6: the runoff r spawned by finalizing p at clock value now starts at
\* now + 300 and lasts as long as p: r.endTime - r.startTime =
\* p.endTime - p.startTime.
C6_RunoffWindow ==
    \A p \in ElectionIds :
        (JustFinalized(p) /\ elections[p].runoffElectionId # 0)
        => LET r == elections[p].runoffElectionId
           IN  /\ elections[r].startTime = now + 300
               /\ elections[r].endTime - elections[r].startTime
                     = elections[p].endTime - elections[p].startTime

C6_Witness ==
    \E p \in ElectionIds :
        /\ JustFinalized(p)
        /\ elections[p].runoffElectionId # 0
        /\ elections[p].startTime > 0
        /\ elections[p].endTime > elections[p].startTime

\* C7: right after a finalize of p that spawns runoff r, the list of r holds
\* one fresh candidate per tied candidate of p, with its name, voteCount 0,
\* advancedToRunoff set and an id no earlier candidate has; the tied
\* candidates of p have advancedToRunoff set and the others have it not set.
C7_RunoffCandidates ==
    [][\A p \in ElectionIds :
          (Finalized(p) /\ elections'[p].runoffElectionId # 0)
          => LET r == elections'[p].runoffElectionId
                 tie == TiedInOrder(p)
                 new == electionCandidates'[r]
             IN  /\ electionCandidates[r] = <<>>
                 /\ Len(new) = Len(tie)
                 /\ Len(new) = Cardinality(Tied(p))
                 /\ \A i \in 1..Len(new) :
                       /\ candidates'[r][new[i]].exists
                       /\ candidates'[r][new[i]].id = new[i]
                       /\ candidates'[r][new[i]].name = candidates[p][tie[i]].name
                       /\ candidates'[r][new[i]].voteCount = 0
                       /\ candidates'[r][new[i]].advancedToRunoff
                       /\ \A e \in ElectionIds : ~candidates[e][new[i]].exists
                       /\ \A j \in 1..Len(new) : new[i] = new[j] => i = j
                 /\ \A c \in CandidateSet(p) :
                       /\ ~candidates[p][c].advancedToRunoff
                       /\ candidates'[p][c].advancedToRunoff = (c \in Tied(p))
                 /\ electionCandidates'[p] = electionCandidates[p]]_vars

C7_Witness ==
    \E p \in ElectionIds :
        /\ JustFinalized(p)
        /\ elections[p].runoffElectionId # 0
        /\ MaxVotes(p) = 1
        /\ \E c \in CandidateSet(p) : ~candidates[p][c].advancedToRunoff
        /\ Len(electionCandidates[elections[p].runoffElectionId]) = 2

\* C8: a finalizeElection that goes through on a non-runoff election with
\* exactly one candidate at the highest tally sets requiresRunoff to false,
\* leaves runoffElectionId unset, creates no election and no candidate and
\* changes no candidate.
C8_SingleLeaderNoRunoff ==
    [][\A e \in ElectionIds :
          (Finalized(e) /\ ~elections[e].isRunoff /\ Cardinality(Tied(e)) = 1)
          => (/\ elections'[e].finalized
              /\ ~elections'[e].requiresRunoff
              /\ elections'[e].runoffElectionId = 0
              /\ electionCounter' = electionCounter
              /\ candidateCounter' = candidateCounter
              /\ \A x \in ElectionIds : elections'[x].exists = elections[x].exists
              /\ candidates' = candidates
              /\ electionCandidates' = electionCandidates)]_vars

C8_Witness ==
    \E e \in ElectionIds :
        /\ JustFinalized(e)
        /\ ~elections[e].isRunoff
        /\ Cardinality(Tied(e)) = 1
        /\ Len(electionCandidates[e]) >= 2

\* C9: finalizing a runoff never creates an election: it sets finalized,
\* leaves requiresRunoff false and runoffElectionId unset and both counters as
\* they were, also when its top candidates are tied.
C9_RunoffNeverSpawns ==
    [][\A e \in ElectionIds :
          (Finalized(e) /\ elections[e].isRunoff)
          => (/\ elections'[e].finalized
              /\ ~elections'[e].requiresRunoff
              /\ elections'[e].runoffElectionId = 0
              /\ electionCounter' = electionCounter
              /\ candidateCounter' = candidateCounter
              /\ \A x \in ElectionIds : elections'[x].exists = elections[x].exists
              /\ candidates' = candidates
              /\ electionCandidates' = electionCandidates)]_vars

C9_Witness ==
    \E e \in ElectionIds :
        /\ JustFinalized(e)
        /\ elections[e].isRunoff
        /\ Cardinality(Tied(e)) >= 2

\* the first failing precondition of vote(e, c) by v in the order the claim
\* gives ("" when none fails)
StatedVoteOutcome(v, e, c) ==
    IF ~registeredVoters[v] THEN NotRegistered
    ELSE IF ~elections[e].exists THEN NotFound
    ELSE IF ~(now >= elections[e].startTime) THEN NotStarted
    ELSE IF ~(now <= elections[e].endTime) THEN Ended
    ELSE IF elections[e].finalized THEN ElectionFinalized
    ELSE IF ~candidates[e][c].exists THEN CandidateNotFound
    ELSE IF hasVoted[v][e] THEN AlreadyVoted
    ELSE ""

\* the same with the vote fact looked at before the candidate
AmendedVoteOutcome(v, e, c) ==
    IF ~registeredVoters[v] THEN NotRegistered
    ELSE IF ~elections[e].exists THEN NotFound
    ELSE IF ~(now >= elections[e].startTime) THEN NotStarted
    ELSE IF ~(now <= elections[e].endTime) THEN Ended
    ELSE IF elections[e].finalized THEN ElectionFinalized
    ELSE IF hasVoted[v][e] THEN AlreadyVoted
    ELSE IF ~candidates[e][c].exists THEN CandidateNotFound
    ELSE ""

\* C10 as stated: vote reports the first failing precondition in the order
\* NotRegistered, NotFound, NotStarted, Ended, ElectionFinalized,
\* CandidateNotFound, AlreadyVoted.
C10_Original ==
    [][CallOf("vote")
       => (/\ last'.reason = StatedVoteOutcome(last'.sender, last'.electionId,
                                               last'.candidateId)
           /\ last'.reverted = (last'.reason # ""))]_vars

\* C10 amended: vote reports the first failing precondition in the order
\* NotRegistered, NotFound, NotStarted, Ended, ElectionFinalized,
\* AlreadyVoted, CandidateNotFound; a caller who has voted and names a
\* candidate that does not exist gets AlreadyVoted.
C10_VoteCheckOrder ==
    [][CallOf("vote")
       => (/\ last'.reason = AmendedVoteOutcome(last'.sender, last'.electionId,
                                                last'.candidateId)
           /\ last'.reverted = (last'.reason # ""))]_vars

C10_Witness ==
    /\ last.op = "vote"
    /\ last.reason = AlreadyVoted
    /\ ~candidates[last.electionId][last.candidateId].exists

\* C11: a mutating call that fails leaves the whole storage as it was; in
\* particular a finalizeElection that fails in the resolver's two-candidate
\* check, after finalized was set, leaves the election not finalized.
MutatingOps ==
    {"createElection", "addCandidate", "registerToVote", "vote",
     "finalizeElection"}

C11_FailedCallChangesNothing ==
    [][(/\ last = NoCall
        /\ last'.op \in MutatingOps
        /\ last'.reverted)
       => (/\ UNCHANGED storage
           /\ (/\ last'.op = "finalizeElection"
               /\ last'.reason = NeedTwoCandidates)
              => ~elections'[last'.electionId].finalized)]_vars

C11_Witness ==
    /\ last.op = "finalizeElection"
    /\ last.reverted
    /\ last.reason = NeedTwoCandidates
    /\ elections[last.electionId].exists
    /\ ~elections[last.electionId].finalized

\* C12: createElection, addCandidate and finalizeElection sent by anyone but
\* the admin fail with the onlyAdmin reason whatever else is wrong with the
\* call, and change nothing; the admin is the deployer and never changes.
AdminOps == {"createElection", "addCandidate", "finalizeElection"}

C12_OnlyAdmin ==
    [][/\ admin = Deployer
       /\ admin' = admin
       /\ (/\ last = NoCall
           /\ last'.op \in AdminOps
           /\ last'.sender # admin)
          => (/\ last'.reverted
              /\ last'.reason = OnlyAdmin
              /\ UNCHANGED storage)]_vars

\* a stranger's finalizeElection on an id that does not exist: the admin
\* test answers before the existence test
C12_Witness ==
    /\ last.op = "finalizeElection"
    /\ last.sender # admin
    /\ ~elections[last.electionId].exists
    /\ last.reverted
    /\ last.reason = OnlyAdmin

\* C13: the admin's addCandidate on a finalized election fails with the
\* finalized-election reason of addCandidate, and once an election is
\* finalized the ids, the order and the names of its candidates stay as
\* they are.
CandidateNames(e) ==
    [i \in 1..Len(electionCandidates[e]) |->
        candidates[e][electionCandidates[e][i]].name]

C13_FinalizedListFrozen ==
    [][\A e \in ElectionIds :
          elections[e].finalized
          => (/\ (/\ CallOf("addCandidate")
                  /\ last'.sender = admin
                  /\ last'.electionId = e)
                 => (/\ last'.reverted
                     /\ last'.reason = CannotAddFinalized)
              /\ electionCandidates'[e] = electionCandidates[e]
              /\ CandidateNames(e)' = CandidateNames(e))]_vars

C13_Witness ==
    /\ last.op = "addCandidate"
    /\ last.sender = admin
    /\ elections[last.electionId].finalized
    /\ Len(electionCandidates[last.electionId]) >= 2
    /\ last.reverted
    /\ last.reason = CannotAddFinalized

\* C14: a vote sent by an identity that is not registered fails with the
\* registration reason whatever election and candidate it names, and no
\* voteCount and no vote fact changes.
C14_UnregisteredVoteFails ==
    [][(/\ CallOf("vote")
        /\ ~registeredVoters[last'.sender])
       => (/\ last'.reverted
           /\ last'.reason = NotRegistered
           /\ candidates' = candidates
           /\ hasVoted' = hasVoted)]_vars

\* an unregistered identity names an open election and one of its
\* candidates, and has not voted there
C14_Witness ==
    /\ last.op = "vote"
    /\ ~registeredVoters[last.sender]
    /\ electionActive(last.electionId) = ""
    /\ candidates[last.electionId][last.candidateId].exists
    /\ last.reverted
    /\ last.reason = NotRegistered

\* C15: a successful vote(e, c) by v sets hasVoted[v][e] and raises the
\* voteCount of candidate c of e by exactly 1; no voteCount ever decreases,
\* and every voteCount equals the number of distinct voters whose successful
\* vote (a VoteCast event) named that candidate.
VotersFor(e, c) == {v \in Addresses : voteCastLog[<<v, e, c>>] > 0}

C15_VoteCounts ==
    [][/\ (CallOf("vote") /\ ~last'.reverted)
          => (/\ hasVoted'[last'.sender][last'.electionId]
              /\ candidates'[last'.electionId][last'.candidateId].voteCount
                    = candidates[last'.electionId][last'.candidateId].voteCount
                      + 1)
       /\ \A e \in ElectionIds, c \in CandidateIds :
             /\ candidates'[e][c].voteCount >= candidates[e][c].voteCount
             /\ candidates'[e][c].voteCount = Cardinality(VotersFor(e, c)')]_vars

\* the second voter has just added a vote to a candidate that had one
C15_Witness ==
    /\ last.op = "vote"
    /\ ~last.reverted
    /\ hasVoted[last.sender][last.electionId]
    /\ candidates[last.electionId][last.candidateId].voteCount = 2
    /\ Cardinality(VotersFor(last.electionId, last.candidateId)) = 2

\* ------------------------------------------------------------------ getWinner
\* mutant: a candidate that equals the highest count takes the lead
BeatsHighest_OrEquals(voteCount, highestVotes) == voteCount >= highestVotes

\* the if test of the loop of getWinner
BeatsHighest(voteCount, highestVotes) == voteCount > highestVotes

\* mutant: no candidate is ever counted as tied
CountsAsTie_Never(voteCount, highestVotes) == FALSE

\* mutant: candidates without votes count as tied
CountsAsTie_Zero(voteCount, highestVotes) == voteCount = highestVotes

\* the else-if test of the loop of getWinner
CountsAsTie(voteCount, highestVotes) ==
    voteCount = highestVotes /\ voteCount > 0

\* the loop of getWinner from index i on; acc holds its four locals
RECURSIVE getWinnerLoop(_, _, _)
getWinnerLoop(electionId, i, acc) ==
    LET candidateIds == electionCandidates[electionId]
    IN  IF i > Len(candidateIds) THEN acc
        ELSE LET candidateId == candidateIds[i]
                 voteCount == candidates[electionId][candidateId].voteCount
             IN  getWinnerLoop(electionId, i + 1,
                    IF BeatsHighest(voteCount, acc.highestVotes)
                    THEN [highestVotes |-> voteCount,
                          winnerId_ |-> candidateId,
                          winnerName_ |->
                              candidates[electionId][candidateId].name,
                          tiedCount |-> 1]
                    ELSE IF CountsAsTie(voteCount, acc.highestVotes)
                    THEN [acc EXCEPT !.tiedCount = @ + 1]
                    ELSE acc)

\* the view getWinner: what the call answers in the current state
getWinner(electionId) ==
    IF ~elections[electionId].exists
    THEN [reverted |-> TRUE, reason |-> NotFound]
    ELSE IF ~elections[electionId].finalized
    THEN [reverted |-> TRUE, reason |-> NotFinalized]
    ELSE LET r == getWinnerLoop(electionId, 1,
                     [highestVotes |-> 0, winnerId_ |-> 0, winnerName_ |-> "",
                      tiedCount |-> 0])
         IN  [reverted |-> FALSE, reason |-> "",
              hasWinner |-> r.highestVotes > 0,
              winnerId |-> r.winnerId_,
              winnerName |-> r.winnerName_,
              winnerVotes |-> r.highestVotes,
              isTied |-> r.tiedCount > 1]

\* C16: getWinner fails with the not-finalized reason on every election that
\* is not finalized; on a finalized election winnerVotes is the highest
\* voteCount of its candidates, hasWinner says that this maximum is above 0,
\* and isTied is true exactly when at least two candidates have the maximum
\* and the maximum is above 0.
C16_GetWinner ==
    \A e \in ElectionIds :
       elections[e].exists
       => IF ~elections[e].finalized
          THEN /\ getWinner(e).reverted
               /\ getWinner(e).reason = NotFinalized
          ELSE /\ ~getWinner(e).reverted
               /\ getWinner(e).winnerVotes = MaxVotes(e)
               /\ getWinner(e).hasWinner = (MaxVotes(e) > 0)
               /\ getWinner(e).isTied
                     = (Cardinality(Tied(e)) >= 2 /\ MaxVotes(e) > 0)

\* a finalized election whose two leaders have one vote each, next to one
\* that is still open
C16_Witness ==
    /\ \E e \in ElectionIds :
          /\ elections[e].finalized
          /\ getWinner(e).hasWinner
          /\ getWinner(e).isTied
          /\ getWinner(e).winnerVotes = 1
    /\ \E e \in ElectionIds :
          /\ elections[e].exists
          /\ ~elections[e].finalized
          /\ getWinner(e).reverted

\* C17: ids are unique and never reused. Every election that appears (by
\* createElection or as a runoff) has an id above every earlier election id,
\* every candidate that appears (by addCandidate or carried into a runoff)
\* has an id above every earlier candidate id, elections and listed
\* candidates never disappear, and no candidate id stands in two candidate
\* lists or twice in one.
ExistingElections == {e \in ElectionIds : elections[e].exists}

ListedCandidates == UNION {CandidateSet(e) : e \in ElectionIds}

C17_FreshIds ==
    [][/\ ExistingElections \subseteq ExistingElections'
       /\ \A e \in ExistingElections' \ ExistingElections :
             /\ elections'[e].id = e
             /\ \A e2 \in ExistingElections : e > e2
       /\ ListedCandidates \subseteq ListedCandidates'
       /\ \A c \in ListedCandidates' \ ListedCandidates :
             \A c2 \in ListedCandidates : c > c2
       /\ (CallOf("createElection") /\ ~last'.reverted)
          => Cardinality(ExistingElections' \ ExistingElections) = 1
       /\ (CallOf("addCandidate") /\ ~last'.reverted)
          => Cardinality(ListedCandidates' \ ListedCandidates) = 1
       /\ \A e \in ElectionIds :
             /\ Cardinality(CandidateSet(e)') = Len(electionCandidates'[e])
             /\ \A c \in CandidateSet(e)' : candidates'[e][c].id = c
             /\ \A e2 \in ElectionIds \ {e} :
                   CandidateSet(e)' \cap CandidateSet(e2)' = {}]_vars

\* a runoff has just been spawned: a new election id and new candidate ids
\* next to those of the parent
C17_Witness ==
    /\ last.op = "finalizeElection"
    /\ ~last.reverted
    /\ \E r \in ElectionIds :
          /\ elections[r].isRunoff
          /\ r > last.electionId
          /\ Len(electionCandidates[r]) >= 2
          /\ \A c \in CandidateSet(r), c2 \in CandidateSet(last.electionId) :
                c > c2

\* C18: the runoffElectionId of an election changes at most once, from unset
\* (0) to the id of a runoff, and only in a successful finalizeElection of
\* that election; every election with isRunoff has a parentElectionId that
\* names an existing, finalized election whose runoffElectionId is the
\* runoff's own id.
C18_RunoffLinks ==
    [][/\ \A e \in ElectionIds :
             elections'[e].runoffElectionId # elections[e].runoffElectionId
             => (/\ elections[e].runoffElectionId = 0
                 /\ elections'[elections'[e].runoffElectionId].isRunoff
                 /\ CallOf("finalizeElection")
                 /\ ~last'.reverted
                 /\ last'.electionId = e)
       /\ \A r \in ElectionIds :
             elections'[r].isRunoff
             => (/\ elections'[elections'[r].parentElectionId].exists
                 /\ elections'[elections'[r].parentElectionId].finalized
                 /\ elections'[elections'[r].parentElectionId].runoffElectionId
                       = r)]_vars

\* a runoff that has itself been finalized, still linked to its parent
C18_Witness ==
    \E r \in ElectionIds :
       /\ elections[r].isRunoff
       /\ elections[r].finalized
       /\ elections[elections[r].parentElectionId].runoffElectionId = r
       /\ elections[elections[r].parentElectionId].finalized

\* C19: of the vote calls one identity sends for one election, in whatever
\* order they and the other calls are executed, at most one succeeds, and
\* together they add at most 1 to the total tally of the election.
RECURSIVE VoteCastCount(_, _, _)
VoteCastCount(v, e, c) ==
    IF c \notin CandidateIds THEN 0
    ELSE voteCastLog[<<v, e, c>>] + VoteCastCount(v, e, c + 1)

C19_OneVotePerIdentity ==
    \A e \in ElectionIds :
       /\ \A v \in Addresses : VoteCastCount(v, e, 0) <= 1
       /\ SumVotes(e, 1)
             = Cardinality({v \in Addresses : VoteCastCount(v, e, 0) > 0})

\* both identities have voted in the election, and one of them has just
\* sent another vote there, for the other candidate
C19_Witness ==
    /\ last.op = "vote"
    /\ last.reverted
    /\ VoteCastCount(last.sender, last.electionId, 0) = 1
    /\ voteCastLog[<<last.sender, last.electionId, last.candidateId>>] = 0
    /\ candidates[last.electionId][last.candidateId].exists
    /\ SumVotes(last.electionId, 1) = 2

\* C20: once an election is finalized, every vote and every addCandidate on
\* it fails, so the voteCounts of its candidates, and with them the answer
\* of getWinner, stay what they were at finalization (a step that leaves
\* the three mappings getWinner reads untouched cannot change its answer).
C20_FinalizedIsFrozen ==
    [][\A e \in ElectionIds :
          elections[e].finalized
          => (/\ (/\ (CallOf("vote") \/ CallOf("addCandidate"))
                  /\ last'.electionId = e)
                 => last'.reverted
              /\ CandidateSet(e)' = CandidateSet(e)
              /\ \A c \in CandidateSet(e) :
                    candidates'[e][c].voteCount = candidates[e][c].voteCount
              /\ (\/ UNCHANGED <<elections, candidates, electionCandidates>>
                  \/ getWinner(e)' = getWinner(e)))]_vars

\* a registered identity that never voted in the election names one of its
\* candidates after the finalization, and the winner stands
C20_Witness ==
    /\ last.op = "vote"
    /\ last.reverted
    /\ elections[last.electionId].finalized
    /\ registeredVoters[last.sender]
    /\ ~hasVoted[last.sender][last.electionId]
    /\ candidates[last.electionId][last.candidateId].exists
    /\ getWinner(last.electionId).hasWinner

\* C21: finalized never goes back to false, and goes to true only in a
\* successful finalizeElection of that election (the passing of endTime
\* alone does nothing); the admin's finalizeElection on a finalized election
\* fails with the already-finalized reason and changes nothing, so
\* requiresRunoff and runoffElectionId stay and no second runoff appears.
C21_FinalizedOnce ==
    [][\A e \in ElectionIds :
          /\ elections[e].finalized => elections'[e].finalized
          /\ (~elections[e].finalized /\ elections'[e].finalized)
             => (/\ CallOf("finalizeElection")
                 /\ ~last'.reverted
                 /\ last'.electionId = e)
          /\ (FinalizeByAdmin(e) /\ elections[e].finalized)
             => (/\ last'.reverted
                 /\ last'.reason = AlreadyFinalized
                 /\ UNCHANGED storage)]_vars

\* a second finalizeElection on an election that spawned a runoff, with
\* the runoff past its own end and still not finalized
C21_Witness ==
    /\ last.op = "finalizeElection"
    /\ last.sender = admin
    /\ last.reverted
    /\ last.reason = AlreadyFinalized
    /\ elections[last.electionId].requiresRunoff
    /\ \E r \in ElectionIds :
          /\ elections[last.electionId].runoffElectionId = r
          /\ now > elections[r].endTime
          /\ ~elections[r].finalized

\* C22: registerToVote by a registered identity fails with the
\* already-registered reason and changes nothing; by any other identity it
\* succeeds and marks the caller, and only the caller, registered; no step
\* ever takes a registration away.
C22_Registration ==
    [][/\ \A a \in Addresses : registeredVoters[a] => registeredVoters'[a]
       /\ CallOf("registerToVote")
          => IF registeredVoters[last'.sender]
             THEN /\ last'.reverted
                  /\ last'.reason = AlreadyRegistered
                  /\ UNCHANGED storage
             ELSE /\ ~last'.reverted
                  /\ registeredVoters' =
                        [registeredVoters EXCEPT ![last'.sender] = TRUE]]_vars

\* the second identity registers after the first, and the first tries again
C22_Witness ==
    /\ last.op = "registerToVote"
    /\ last.reverted
    /\ last.reason = AlreadyRegistered
    /\ \A a \in Addresses : registeredVoters[a]

\* C23: finalizing a non-runoff election that has at least 2 candidates and
\* no vote at all spawns a runoff that carries every candidate forward, in
\* order, and sets requiresRunoff.
C23_ZeroVoteRunoff ==
    [][\A e \in ElectionIds :
          (/\ FinalizeByAdmin(e)
           /\ elections[e].exists
           /\ ~elections[e].isRunoff
           /\ ~elections[e].finalized
           /\ now > elections[e].endTime
           /\ Len(electionCandidates[e]) >= 2
           /\ SumVotes(e, 1) = 0)
          => (/\ ~last'.reverted
              /\ elections'[e].requiresRunoff
              /\ elections'[e].runoffElectionId \in
                    ExistingElections' \ ExistingElections
              /\ LET r == elections'[e].runoffElectionId
                 IN  /\ elections'[r].isRunoff
                     /\ Len(electionCandidates'[r])
                           = Len(electionCandidates[e])
                     /\ \A i \in 1..Len(electionCandidates[e]) :
                           candidates'[r][electionCandidates'[r][i]].name
                              = candidates[e][electionCandidates[e][i]].name
              /\ \A c \in CandidateSet(e) :
                    candidates'[e][c].advancedToRunoff)]_vars

\* three candidates, nobody voted, and all three stand in the runoff
C23_Witness ==
    /\ last.op = "finalizeElection"
    /\ ~last.reverted
    /\ Len(electionCandidates[last.electionId]) = 3
    /\ SumVotes(last.electionId, 1) = 0
    /\ elections[last.electionId].requiresRunoff
    /\ Len(electionCandidates[elections[last.electionId].runoffElectionId]) = 3

\* what a successful createElection leaves, given the endTime it should set
CreatedElection(endTime) ==
    LET e == electionCounter'
    IN  /\ e = electionCounter + 1
        /\ ExistingElections' = ExistingElections \cup {e}
        /\ elections'[e].id = e
        /\ elections'[e].startTime = now
        /\ elections'[e].endTime = endTime
        /\ ~elections'[e].finalized
        /\ ~elections'[e].isRunoff
        /\ ~elections'[e].requiresRunoff
        /\ elections'[e].parentElectionId = 0
        /\ elections'[e].runoffElectionId = 0

\* C24 as stated: a successful createElection with duration argument d at
\* clock value now creates the election under the next id with startTime =
\* now and endTime = now + d, not finalized, not a runoff, requiresRunoff
\* false and no parent or runoff link.
C24_Original ==
    [][(CallOf("createElection") /\ ~last'.reverted)
       => CreatedElection(now + last'.durationInMinutes)]_vars

\* C24 amended: the duration argument counts minutes, so the election is
\* created with endTime = now + 60 * d; the other fields are as stated.
C24_CreatedFields ==
    [][(CallOf("createElection") /\ ~last'.reverted)
       => CreatedElection(now + 60 * last'.durationInMinutes)]_vars

\* an election created at a clock value above 0 for 10 minutes
C24_Witness ==
    /\ last.op = "createElection"
    /\ ~last.reverted
    /\ last.durationInMinutes = 10
    /\ now > 0
    /\ elections[electionCounter].startTime = now
    /\ elections[electionCounter].endTime = now + 600

\* --------------------------------------------------------- getElectionResults
\* mutant: the candidate is looked up under the loop index
CandidateAt_ByIndex(electionId, candidateIdList, i) ==
    candidates[electionId][i - 1]

\* the Candidate the loop of getElectionResults reads at position i
CandidateAt(electionId, candidateIdList, i) ==
    candidates[electionId][candidateIdList[i]]

\* the loop of getElectionResults from position i on; acc holds the four
\* arrays, allocated with zero values
RECURSIVE getElectionResultsLoop(_, _, _)
getElectionResultsLoop(electionId, i, acc) ==
    LET candidateIdList == electionCandidates[electionId]
        candidateCount == Len(candidateIdList)
    IN  IF i > candidateCount THEN acc
        ELSE LET candidate == CandidateAt(electionId, candidateIdList, i)
             IN  getElectionResultsLoop(electionId, i + 1,
                    [candidateIds |->
                        [acc.candidateIds EXCEPT ![i] = candidate.id],
                     candidateNames |->
                        [acc.candidateNames EXCEPT ![i] = candidate.name],
                     voteCounts |->
                        [acc.voteCounts EXCEPT ![i] = candidate.voteCount],
                     advancedToRunoff |->
                        [acc.advancedToRunoff EXCEPT
                            ![i] = candidate.advancedToRunoff]])

\* the view getElectionResults: what the call answers in the current state
getElectionResults(electionId) ==
    LET candidateCount == Len(electionCandidates[electionId])
    IN  IF ~elections[electionId].exists
        THEN [reverted |-> TRUE, reason |-> NotFound]
        ELSE [reverted |-> FALSE, reason |-> ""] @@
             getElectionResultsLoop(electionId, 1,
                [candidateIds |-> [k \in 1..candidateCount |-> 0],
                 candidateNames |-> [k \in 1..candidateCount |-> ""],
                 voteCounts |-> [k \in 1..candidateCount |-> 0],
                 advancedToRunoff |-> [k \in 1..candidateCount |-> FALSE]])

\* C25: getElectionResults answers four arrays as long as the candidate
\* list of the election, and at every index the id, the name, the voteCount
\* and the advancedToRunoff flag are those of the candidate at that index
\* of the list.
C25_ResultsAligned ==
    \A e \in ExistingElections :
       LET r == getElectionResults(e)
           ids == electionCandidates[e]
       IN  /\ ~r.reverted
           /\ Len(r.candidateIds) = Len(ids)
           /\ Len(r.candidateNames) = Len(ids)
           /\ Len(r.voteCounts) = Len(ids)
           /\ Len(r.advancedToRunoff) = Len(ids)
           /\ \A i \in 1..Len(ids) :
                 /\ r.candidateIds[i] = ids[i]
                 /\ r.candidateNames[i] = candidates[e][ids[i]].name
                 /\ r.voteCounts[i] = candidates[e][ids[i]].voteCount
                 /\ r.advancedToRunoff[i]
                       = candidates[e][ids[i]].advancedToRunoff

\* a finalized election with two tied leaders and a third candidate, and
\* its runoff with the two copies
C25_Witness ==
    \E e \in ExistingElections :
       /\ getElectionResults(e).voteCounts = <<1, 0, 1>>
       /\ getElectionResults(e).advancedToRunoff = <<TRUE, FALSE, TRUE>>
       /\ elections[e].runoffElectionId \in ExistingElections
       /\ Len(getElectionResults(elections[e].runoffElectionId).candidateIds)
             = 2

\* C26: a successful addCandidate on an existing, not finalized election
\* appends one candidate with a new global id, voteCount 0 and
\* advancedToRunoff false to the end of that election's list and leaves
\* every other candidate, every other list and all vote facts as they were;
\* the admin's addCandidate on an id that names no election fails with the
\* not-found reason.
C26_AddCandidateFrame ==
    [][/\ (CallOf("addCandidate") /\ ~last'.reverted)
          => LET e == last'.electionId
                 c == candidateCounter'
             IN  /\ elections[e].exists
                 /\ ~elections[e].finalized
                 /\ c = candidateCounter + 1
                 /\ c \notin ListedCandidates
                 /\ electionCandidates' =
                       [electionCandidates EXCEPT ![e] = Append(@, c)]
                 /\ candidates'[e][c].id = c
                 /\ candidates'[e][c].name = last'.name
                 /\ candidates'[e][c].voteCount = 0
                 /\ ~candidates'[e][c].advancedToRunoff
                 /\ \A e2 \in ElectionIds, c2 \in CandidateIds :
                       <<e2, c2>> # <<e, c>>
                       => candidates'[e2][c2] = candidates[e2][c2]
                 /\ hasVoted' = hasVoted
                 /\ UNCHANGED <<elections, registeredVoters, voteCastLog>>
       /\ (/\ CallOf("addCandidate")
           /\ last'.sender = admin
           /\ ~elections[last'.electionId].exists)
          => (/\ last'.reverted
              /\ last'.reason = NotFound
              /\ UNCHANGED storage)]_vars

\* a candidate is added to an election in which a vote has been cast, while
\* another election has candidates of its own
C26_Witness ==
    /\ last.op = "addCandidate"
    /\ ~last.reverted
    /\ SumVotes(last.electionId, 1) > 0
    /\ electionCandidates[last.electionId][
          Len(electionCandidates[last.electionId])] = candidateCounter
    /\ \E e \in ExistingElections \ {last.electionId} :
          Len(electionCandidates[e]) >= 2

\* the events of one name in a log
EventsNamed(log, n) == SelectSeq(log, LAMBDA ev : ev.name = n)

\* C27: a step that is not a successful call emits nothing, and a successful
\* call emits its notification exactly once: VoteCast for a vote,
\* VoterRegistered for a registration, CandidateAdded for an addCandidate,
\* ElectionCreated for every election created (by createElection or as a
\* runoff), ElectionFinalized with the requiresRunoff it stored for a
\* finalizeElection, and RunoffRequired(parent, runoff) exactly when that
\* finalizeElection spawned a runoff.
C27_Events ==
    [][/\ (last' = NoCall \/ last'.reverted) => emitted' = <<>>
       /\ (CallOf("vote") /\ ~last'.reverted)
          => emitted' = <<[name |-> "VoteCast", voter |-> last'.sender,
                           electionId |-> last'.electionId,
                           candidateId |-> last'.candidateId]>>
       /\ (CallOf("registerToVote") /\ ~last'.reverted)
          => emitted' = <<[name |-> "VoterRegistered",
                           voter |-> last'.sender]>>
       /\ (CallOf("addCandidate") /\ ~last'.reverted)
          => emitted' = <<[name |-> "CandidateAdded",
                           electionId |-> last'.electionId,
                           candidateId |-> candidateCounter',
                           candidateName |-> last'.name]>>
       /\ (CallOf("createElection") /\ ~last'.reverted)
          => emitted' = <<[name |-> "ElectionCreated",
                           electionId |-> electionCounter',
                           title |-> last'.title,
                           startTime |-> elections'[electionCounter'].startTime,
                           endTime |-> elections'[electionCounter'].endTime]>>
       /\ (CallOf("finalizeElection") /\ ~last'.reverted)
          => LET e == last'.electionId
                 spawned == ExistingElections' \ ExistingElections
             IN  /\ EventsNamed(emitted', "ElectionFinalized")
                       = <<[name |-> "ElectionFinalized", electionId |-> e,
                            runoffRequired |->
                               elections'[e].requiresRunoff]>>
                 /\ IF spawned = {}
                    THEN Len(emitted') = 1
                    ELSE /\ Len(emitted') = 3
                         /\ EventsNamed(emitted', "RunoffRequired")
                               = <<[name |-> "RunoffRequired",
                                    originalElectionId |-> e,
                                    runoffElectionId |->
                                       elections'[e].runoffElectionId]>>
                         /\ spawned = {elections'[e].runoffElectionId}
                         /\ Len(EventsNamed(emitted', "ElectionCreated")) = 1
                         /\ EventsNamed(emitted', "ElectionCreated")[1]
                               .electionId = elections'[e].runoffElectionId]_vars

\* a finalizeElection that spawned a runoff has just emitted its three events
C27_Witness ==
    /\ last.op = "finalizeElection"
    /\ ~last.reverted
    /\ Len(emitted) = 3
    /\ emitted[1].name = "RunoffRequired"
    /\ emitted[2].name = "ElectionCreated"
    /\ emitted[3].name = "ElectionFinalized"
    /\ emitted[3].runoffRequired

\* C28: the candidates of a runoff are created in the order in which the
\* tied candidates stand in the parent's list and take consecutive ascending
\* ids in that order: the i-th entry of the runoff's list is the copy of the
\* i-th tied candidate of the parent and has the i-th id after the last one
\* used, so the copy of an earlier tied candidate comes earlier and has the
\* smaller id.
C28_RunoffOrder ==
    [][\A p \in ElectionIds :
          (Finalized(p) /\ elections'[p].requiresRunoff)
          => LET r == elections'[p].runoffElectionId
                 tie == TiedInOrder(p)
                 new == electionCandidates'[r]
             IN  /\ Len(new) = Len(tie)
                 /\ \A i \in 1..Len(new) :
                       /\ new[i] = candidateCounter + i
                       /\ candidates'[r][new[i]].name
                             = candidates[p][tie[i]].name
                 /\ \A i, j \in 1..Len(new) :
                       i < j => (/\ new[i] < new[j]
                                 /\ \E a, b \in 1..Len(electionCandidates[p]) :
                                       /\ a < b
                                       /\ electionCandidates[p][a] = tie[i]
                                       /\ electionCandidates[p][b] = tie[j])]_vars

\* Bob, Alice, Alice with the first and the last tied: the runoff lists
\* Bob's copy before Alice's
C28_Witness ==
    \E p \in ElectionIds :
       /\ JustFinalized(p)
       /\ elections[p].requiresRunoff
       /\ CandidateNames(p) = <<"Bob", "Alice", "Alice">>
       /\ TiedInOrder(p) = <<electionCandidates[p][1], electionCandidates[p][3]>>
       /\ CandidateNames(elections[p].runoffElectionId) = <<"Bob", "Alice">>

\* the candidates of p that were carried into its runoff
Advanced(p) == {c \in CandidateSet(p) : candidates[p][c].advancedToRunoff}

\* C29: in every reachable state every candidate in the list of a runoff is
\* a carried-forward copy of a tied candidate of the parent (advancedToRunoff
\* set, one copy per carried candidate); the admin cannot add any other
\* candidate to a runoff.
C29_RunoffOnlyCarriedForward ==
    \A r \in ExistingElections :
       elections[r].isRunoff
       => (/\ \A c \in CandidateSet(r) : candidates[r][c].advancedToRunoff
           /\ Len(electionCandidates[r])
                 = Cardinality(Advanced(elections[r].parentElectionId)))

\* C30: in every reachable state and for every election, requiresRunoff is
\* set if and only if runoffElectionId is set, and then the election is
\* finalized and is not a runoff; so a runoff has no runoff of its own and
\* the parent of a runoff is never a runoff.
C30_RunoffFlagMatchesLink ==
    \A e \in ElectionIds :
       /\ elections[e].requiresRunoff = (elections[e].runoffElectionId # 0)
       /\ elections[e].requiresRunoff
          => (elections[e].finalized /\ ~elections[e].isRunoff)
       /\ elections[e].isRunoff
          => (/\ elections[e].runoffElectionId = 0
              /\ ~elections[e].requiresRunoff
              /\ ~elections[elections[e].parentElectionId].isRunoff)

\* a runoff whose own finalization found a tie, and its parent
C30_Witness ==
    \E r \in ExistingElections :
       /\ elections[r].isRunoff
       /\ elections[r].finalized
       /\ Cardinality(Tied(r)) >= 2
       /\ ~elections[r].requiresRunoff
       /\ elections[elections[r].parentElectionId].requiresRunoff
       /\ elections[elections[r].parentElectionId].runoffElectionId = r

\* C31: a vote succeeds only at clock values from startTime to endTime and a
\* finalizeElection only at clock values above endTime; the clock never
\* goes back, so a finalized election is past its endTime for good and no
\* vote on it succeeds from the finalization on; a vote at now = startTime
\* and one at now = endTime, otherwise in order, are accepted.
C31_VoteAndFinalizeWindows ==
    [][/\ now' >= now
       /\ \A e \in ElectionIds :
             /\ (VoteBy(last'.sender, e) /\ ~last'.reverted)
                => (/\ elections[e].startTime <= now
                    /\ now <= elections[e].endTime
                    /\ ~elections[e].finalized)
             /\ Finalized(e) => now > elections[e].endTime
             /\ elections'[e].finalized => now' > elections'[e].endTime
             /\ (/\ CallOf("vote")
                 /\ last'.electionId = e
                 /\ elections[e].exists
                 /\ now \in {elections[e].startTime, elections[e].endTime}
                 /\ registeredVoters[last'.sender]
                 /\ ~hasVoted[last'.sender][e]
                 /\ candidates[e][last'.candidateId].exists)
                => ~last'.reverted]_vars

\* a vote accepted in the last second of the window
C31_Witness ==
    /\ last.op = "vote"
    /\ ~last.reverted
    /\ now = elections[last.electionId].endTime
    /\ now > elections[last.electionId].startTime

\* ------------------------------------------------------------ isElectionActive
\* mutant: the first second of the window is shut out
isElectionActive_StartExclusive(electionId) ==
    LET election == elections[electionId]
    IN  IF ~elections[electionId].exists
        THEN [reverted |-> TRUE, reason |-> NotFound, ret |-> FALSE]
        ELSE [reverted |-> FALSE, reason |-> "",
              ret |-> /\ now > election.startTime
                      /\ now <= election.endTime
                      /\ ~election.finalized]

\* the view isElectionActive: what the call answers in the current state
isElectionActive(electionId) ==
    LET election == elections[electionId]
    IN  IF ~elections[electionId].exists
        THEN [reverted |-> TRUE, reason |-> NotFound, ret |-> FALSE]
        ELSE [reverted |-> FALSE, reason |-> "",
              ret |-> /\ now >= election.startTime
                      /\ now <= election.endTime
                      /\ ~election.finalized]

\* C32: a vote by a registered identity that has not voted in election e
\* and names a candidate of e succeeds if and only if isElectionActive(e)
\* answers true at that clock value; every vote of a registered identity on
\* a runoff before its startTime fails with the not-started reason.
C32_VoteIffActive ==
    [][\A e \in ElectionIds :
          /\ (/\ CallOf("vote")
              /\ last'.electionId = e
              /\ registeredVoters[last'.sender]
              /\ ~hasVoted[last'.sender][e]
              /\ candidates[e][last'.candidateId].exists)
             => (/\ ~isElectionActive(e).reverted
                 /\ (~last'.reverted) = isElectionActive(e).ret)
          /\ (/\ CallOf("vote")
              /\ last'.electionId = e
              /\ registeredVoters[last'.sender]
              /\ elections[e].isRunoff
              /\ now < elections[e].startTime)
             => (/\ last'.reverted
                 /\ last'.reason = NotStarted
                 /\ ~isElectionActive(e).ret)]_vars

\* a vote for a candidate of a runoff sent during the break before it opens
C32_Witness ==
    /\ last.op = "vote"
    /\ last.reverted
    /\ last.reason = NotStarted
    /\ elections[last.electionId].isRunoff
    /\ candidates[last.electionId][last.candidateId].exists
    /\ ~hasVoted[last.sender][last.electionId]
    /\ ~isElectionActive(last.electionId).ret

\* C33: a vote, otherwise in order, that names the id of a candidate of
\* another election fails with the candidate reason and changes no tally; a
\* successful vote changes nothing but the caller's vote fact for that
\* election and the voteCount of the named candidate in that election, and
\* whether the caller has voted in another election (the parent of a runoff,
\* say) plays no part in its success.
C33_VotePerElection ==
    [][/\ (/\ CallOf("vote")
           /\ registeredVoters[last'.sender]
           /\ electionActive(last'.electionId) = ""
           /\ ~hasVoted[last'.sender][last'.electionId])
          => IF candidates[last'.electionId][last'.candidateId].exists
             THEN ~last'.reverted
             ELSE /\ last'.reverted
                  /\ last'.reason = CandidateNotFound
                  /\ UNCHANGED storage
       /\ (CallOf("vote") /\ ~last'.reverted)
          => (/\ hasVoted' = [hasVoted EXCEPT
                                ![last'.sender][last'.electionId] = TRUE]
              /\ candidates' =
                    [candidates EXCEPT
                       ![last'.electionId][last'.candidateId].voteCount = @ + 1]
              /\ UNCHANGED <<admin, electionCounter, candidateCounter,
                             elections, electionCandidates,
                             registeredVoters>>)]_vars

\* the caller, who voted in the parent, votes in its runoff
C33_Witness ==
    /\ last.op = "vote"
    /\ ~last.reverted
    /\ elections[last.electionId].isRunoff
    /\ hasVoted[last.sender][elections[last.electionId].parentElectionId]
    /\ hasVoted[last.sender][last.electionId]
    /\ candidates[last.electionId][last.candidateId].voteCount = 1

\* a vote in the open runoff that names a candidate of the parent
C33_WitnessOtherElection ==
    /\ last.op = "vote"
    /\ last.reverted
    /\ last.reason = CandidateNotFound
    /\ last.candidateId \in
          CandidateSet(elections[last.electionId].parentElectionId)

\* C34: a candidate of a non-runoff election has advancedToRunoff set only
\* if the election is finalized with requiresRunoff set and the candidate
\* has the highest voteCount of the election.
C34_AdvancedMeansTied ==
    \A e \in ElectionIds, c \in CandidateIds :
       (~elections[e].isRunoff /\ candidates[e][c].advancedToRunoff)
       => (/\ c \in CandidateSet(e)
           /\ elections[e].finalized
           /\ elections[e].requiresRunoff
           /\ candidates[e][c].voteCount = MaxVotes(e))

\* two leaders with one vote each were carried forward, a third candidate
\* was not, and the runoff has been voted in since
C34_Witness ==
    \E e \in ExistingElections :
       /\ ~elections[e].isRunoff
       /\ MaxVotes(e) = 1
       /\ Cardinality(Advanced(e)) = 2
       /\ Len(electionCandidates[e]) = 3
       /\ SumVotes(elections[e].runoffElectionId, 1) > 0

\* the number of entries of the candidate lists of the elections from e on
RECURSIVE TotalListed(_)
TotalListed(e) ==
    IF e \notin ElectionIds THEN 0
    ELSE Len(electionCandidates[e]) + TotalListed(e + 1)

\* C35: after every step the existing elections are exactly those with the
\* ids 1..electionCounter and candidateCounter is the total number of
\* entries of all candidate lists; no step removes an election, a list
\* entry or a candidate.
C35_Counters ==
    [][/\ ExistingElections' = 1..electionCounter'
       /\ candidateCounter' = TotalListed(0)'
       /\ candidateCounter' = Cardinality(ListedCandidates')
       /\ ExistingElections \subseteq ExistingElections'
       /\ \A e \in ElectionIds :
             /\ Len(electionCandidates'[e]) >= Len(electionCandidates[e])
             /\ SubSeq(electionCandidates'[e], 1, Len(electionCandidates[e]))
                   = electionCandidates[e]
             /\ \A c \in CandidateIds :
                   candidates[e][c].exists => candidates'[e][c].exists]_vars

\* two elections and five candidates, three in the first list
C35_Witness ==
    /\ electionCounter = 2
    /\ candidateCounter = 5
    /\ Len(electionCandidates[1]) = 3
    /\ Len(electionCandidates[2]) = 2

\* the first position of the list of e whose candidate has the highest
\* voteCount
FirstLeader(e) ==
    CHOOSE i \in 1..Len(electionCandidates[e]) :
       /\ candidates[e][electionCandidates[e][i]].voteCount = MaxVotes(e)
       /\ \A j \in 1..(i - 1) :
             candidates[e][electionCandidates[e][j]].voteCount < MaxVotes(e)

\* C36: on a finalized election whose highest voteCount is above 0,
\* getWinner answers the id and the name of the first candidate of the list
\* that has the highest voteCount; when no candidate has a vote, or there is
\* none, it answers hasWinner false, winnerId 0, winnerVotes 0 and isTied
\* false.
C36_FirstLeaderWins ==
    \A e \in ExistingElections :
       elections[e].finalized
       => IF MaxVotes(e) > 0
          THEN LET c == electionCandidates[e][FirstLeader(e)]
               IN  /\ getWinner(e).winnerId = c
                   /\ getWinner(e).winnerName = candidates[e][c].name
          ELSE /\ ~getWinner(e).hasWinner
               /\ getWinner(e).winnerId = 0
               /\ getWinner(e).winnerVotes = 0
               /\ ~getWinner(e).isTied

\* Alice without a vote, then Bob and Alice with one vote each: Bob wins
C36_Witness ==
    \E e \in ExistingElections :
       /\ elections[e].finalized
       /\ CandidateNames(e) = <<"Alice", "Bob", "Alice">>
       /\ getElectionResults(e).voteCounts = <<0, 1, 1>>
       /\ getWinner(e).winnerId = electionCandidates[e][2]
       /\ getWinner(e).winnerName = "Bob"
       /\ getWinner(e).isTied

\* C37: for every finalized election that is not a runoff, requiresRunoff
\* says whether at least two candidates have the highest voteCount, and
\* when that count is above 0 it equals the isTied flag getWinner answers.
C37_RunoffFlagIsTie ==
    \A e \in ExistingElections :
       (elections[e].finalized /\ ~elections[e].isRunoff)
       => (/\ elections[e].requiresRunoff = (Cardinality(Tied(e)) >= 2)
           /\ MaxVotes(e) > 0
              => elections[e].requiresRunoff = getWinner(e).isTied)

\* a finalized election with a two-way tie at one vote, and its runoff
\* already voted in
C37_Witness ==
    \E e \in ExistingElections :
       /\ elections[e].finalized
       /\ ~elections[e].isRunoff
       /\ MaxVotes(e) = 1
       /\ elections[e].requiresRunoff
       /\ getWinner(e).isTied
       /\ Len(electionCandidates[e]) = 3
       /\ elections[elections[e].runoffElectionId].finalized

\* ---------------------------------------------------------------- front end
\* The voting page (src/frontend/app/components/CountdownTimer.tsx, the
\* VotingInterface component).  A handler runs without interruption between
\* two awaits, so one step is: the awaited call settles and the handler runs
\* on to its next await or to its end.  The buttons of the page are disabled
\* while isLoading is true, so one handler is in flight at a time.  What the
\* wallet and the node answer is the environment's choice; the contract
\* itself takes no step here.
chain == <<storage, now, last, emitted, voteCastLog>>

\* a message is the sequence of its parts; includes() looks for one part
Includes(message, part) == \E i \in 1..Len(message) : message[i] = part

\* the parts castVote looks for in the message of the error it caught
AlreadyVotedPart == "You have already voted"
NotRegisteredPart == "You must be a registered voter"

\* the text of a revert reason, cut where the front end looks into it
ReasonParts(reason) ==
    IF reason = AlreadyVoted THEN <<AlreadyVotedPart, " in this election">>
    ELSE <<reason>>

\* what an awaited call settles with: a value, or something thrown
Resolved(value) == [NoSettled EXCEPT !.value = value]
ErrorWith(message) ==
    [threw |-> TRUE, isError |-> TRUE, message |-> message, value |-> FALSE]
\* the error of a call the contract reverted carries the revert reason
RevertError(reason) == ErrorWith(<<"execution reverted: ">> \o ReasonParts(reason))
UserRejected == ErrorWith(<<"user rejected action">>)
NetworkError == ErrorWith(<<"could not detect network">>)
TransactionFailed == ErrorWith(<<"transaction execution reverted">>)
\* a thrown value that is no instance of Error
NotAnError ==
    [threw |-> TRUE, isError |-> FALSE, message |-> <<>>, value |-> FALSE]

\* the require statements of vote, modifiers included
VoteReverts ==
    {NotRegistered, NotFound, NotStarted, Ended, ElectionFinalized,
     AlreadyVoted, CandidateNotFound}
VoteResults ==
    {Resolved(FALSE), UserRejected, NetworkError, NotAnError}
        \cup {RevertError(r) : r \in VoteReverts}
WaitResults ==
    {Resolved(FALSE), TransactionFailed, NetworkError, NotAnError}
        \cup {RevertError(r) : r \in VoteReverts}
RegisterResults ==
    {Resolved(FALSE), UserRejected, NetworkError, NotAnError,
     RevertError(AlreadyRegistered)}
ReadResults == {Resolved(TRUE), Resolved(FALSE), NetworkError, NotAnError}

\* the awaited call at position ui.pc has settled with result
Settled(u, result) == [u EXCEPT !.settled = result, !.awaited = u.pc]

\* loadUserData: the two reads of the chain and what they gave
LoadUserDataOutcomes ==
    {[registered |-> r, voted |-> v] :
        r \in {"true", "false", "threw"}, v \in {"true", "false", "threw"}}
loadUserData(u, outcome) ==
    IF outcome.registered = "threw"
    THEN [u EXCEPT !.error = <<"Failed to check registration status. Contract may not be working properly.">>]
    ELSE [u EXCEPT !.isRegistered = (outcome.registered = "true"),
                   !.hasVoted = (outcome.voted = "true")]

\* loadElectionData: it sets the error it ends with, null when all was read
LoadElectionDataOutcomes ==
    {NoError,
     <<"No elections found. The contract admin needs to create an election first.">>,
     <<"Election ", "doesn't exist.">>,
     <<"Failed to get election count. Contract may not be deployed correctly.">>,
     <<"Failed to load election ", "It may not exist.">>,
     <<"Failed to load election results.">>}
loadElectionData(u, outcome) == [u EXCEPT !.error = outcome]

\* a handler sets isLoading and clears the error before its try block
StartLoading(u, pc) ==
    [u EXCEPT !.isLoading = TRUE, !.error = NoError, !.pc = pc,
              !.settled = NoSettled, !.awaited = "none"]

\* catch (e) { setError(e instanceof Error ? e.message : fallback) }
CatchMessage(thrown, fallback) ==
    IF thrown.isError THEN thrown.message ELSE fallback

\* --- connectWallet
connectWalletCatch(u, connectError) ==
    [u EXCEPT !.error = CatchMessage(connectError, <<"Failed to connect wallet">>)]
connectWalletFinally(u) == [u EXCEPT !.isLoading = FALSE, !.pc = "idle"]

\* up to the first await; without a wallet in the browser it only reports
ui_connectWallet ==
    /\ ui.pc = "idle"
    /\ \E hasEthereum \in BOOLEAN :
          ui' = IF ~hasEthereum
                THEN [ui EXCEPT !.error = <<"MetaMask is not installed">>]
                ELSE StartLoading(ui, "connectWallet.getAddress")
    /\ UNCHANGED chain

\* ensureCorrectNetwork never throws, it may leave an error; then the
\* wallet is asked for the account and the signer for its address
EnsureNetworkOutcomes ==
    {NoError, <<"Failed to add Sepolia network to MetaMask">>,
     <<"Please switch to Sepolia testnet in MetaMask manually">>}
ui_connectWallet_getAddress ==
    /\ ui.pc = "connectWallet.getAddress"
    /\ \E networkError \in EnsureNetworkOutcomes,
          result \in {Resolved(FALSE), UserRejected, NotAnError},
          address \in Addresses :
          LET u == Settled([ui EXCEPT !.error = networkError], result)
          IN  ui' = IF result.threw
                    THEN connectWalletFinally(connectWalletCatch(u, result))
                    ELSE [u EXCEPT !.account = address,
                                   !.pc = "connectWallet.getCode"]
    /\ UNCHANGED chain

\* getCode: no code at the address is an error of its own
ui_connectWallet_getCode ==
    /\ ui.pc = "connectWallet.getCode"
    /\ \E result \in ReadResults :
          LET u == Settled(ui, result)
              noContract == ErrorWith(<<"No contract found at address ">>)
          IN  ui' = IF result.threw
                    THEN connectWalletFinally(connectWalletCatch(u, result))
                    ELSE IF ~result.value
                    THEN connectWalletFinally(connectWalletCatch(u, noContract))
                    ELSE [u EXCEPT !.contract = TRUE,
                                   !.pc = "connectWallet.admin"]
    /\ UNCHANGED chain

\* the test read of admin(): whatever it throws is replaced by one error
ui_connectWallet_admin ==
    /\ ui.pc = "connectWallet.admin"
    /\ \E result \in {Resolved(FALSE), NetworkError, NotAnError} :
          LET u == Settled(ui, result)
              failed == ErrorWith(<<"Contract interaction failed. The contract may not be deployed correctly.">>)
          IN  ui' = IF result.threw
                    THEN connectWalletFinally(connectWalletCatch(u, failed))
                    ELSE [u EXCEPT !.pc = "connectWallet.loadUserData"]
    /\ UNCHANGED chain

ui_connectWallet_loadUserData ==
    /\ ui.pc = "connectWallet.loadUserData"
    /\ \E outcome \in LoadUserDataOutcomes :
          ui' = [loadUserData(Settled(ui, Resolved(FALSE)), outcome)
                    EXCEPT !.pc = "connectWallet.loadElectionData"]
    /\ UNCHANGED chain

ui_connectWallet_loadElectionData ==
    /\ ui.pc = "connectWallet.loadElectionData"
    /\ \E outcome \in LoadElectionDataOutcomes :
          ui' = connectWalletFinally(
                    loadElectionData(Settled(ui, Resolved(FALSE)), outcome))
    /\ UNCHANGED chain

\* --- registerToVote
registerToVoteCatch(u, registrationError) ==
    [u EXCEPT !.error = CatchMessage(registrationError, <<"Failed to register to vote">>)]
registerToVoteFinally(u) == [u EXCEPT !.isLoading = FALSE, !.pc = "idle"]

\* the account is registered already: the handler returns from inside try
registerToVoteAlreadyRegistered(u) ==
    [u EXCEPT !.isRegistered = TRUE, !.error = NoError, !.isLoading = FALSE]

ui_registerToVote ==
    /\ ui.pc = "idle"
    /\ ui' = IF ~ui.contract
             THEN [ui EXCEPT !.error = <<"Contract not connected">>]
             ELSE StartLoading(ui, IF ui.account # Null
                                   THEN "registerToVote.registeredVoters"
                                   ELSE "registerToVote.registerToVote")
    /\ UNCHANGED chain

ui_registerToVote_registeredVoters ==
    /\ ui.pc = "registerToVote.registeredVoters"
    /\ \E result \in ReadResults :
          LET u == Settled(ui, result)
          IN  ui' = IF result.threw
                    THEN registerToVoteFinally(registerToVoteCatch(u, result))
                    ELSE IF result.value
                    THEN registerToVoteFinally(registerToVoteAlreadyRegistered(u))
                    ELSE [u EXCEPT !.pc = "registerToVote.registerToVote"]
    /\ UNCHANGED chain

ui_registerToVote_registerToVote ==
    /\ ui.pc = "registerToVote.registerToVote"
    /\ \E result \in RegisterResults :
          LET u == Settled(ui, result)
          IN  ui' = IF result.threw
                    THEN registerToVoteFinally(registerToVoteCatch(u, result))
                    ELSE [u EXCEPT !.pc = "registerToVote.wait"]
    /\ UNCHANGED chain

ui_registerToVote_wait ==
    /\ ui.pc = "registerToVote.wait"
    /\ \E result \in {Resolved(FALSE), TransactionFailed, NetworkError,
                      NotAnError, RevertError(AlreadyRegistered)} :
          LET u == Settled(ui, result)
              registered == [u EXCEPT !.isRegistered = TRUE, !.error = NoError]
          IN  ui' = IF result.threw
                    THEN registerToVoteFinally(registerToVoteCatch(u, result))
                    ELSE IF ui.account # Null
                    THEN [registered EXCEPT
                             !.pc = "registerToVote.loadUserData"]
                    ELSE registerToVoteFinally(registered)
    /\ UNCHANGED chain

ui_registerToVote_loadUserData ==
    /\ ui.pc = "registerToVote.loadUserData"
    /\ \E outcome \in LoadUserDataOutcomes :
          ui' = registerToVoteFinally(
                    loadUserData(Settled(ui, Resolved(FALSE)), outcome))
    /\ UNCHANGED chain

\* --- castVote
\* mutant: whatever was caught marks the vote as cast
castVoteCatch_AlwaysVoted(u, voteError) ==
    [u EXCEPT !.error = CatchMessage(voteError, <<"Failed to cast vote">>),
              !.hasVoted = TRUE]

castVoteCatch(u, voteError) ==
    IF voteError.isError /\ Includes(voteError.message, AlreadyVotedPart)
    THEN [u EXCEPT !.error = <<AlreadyVoted>>, !.hasVoted = TRUE]
    ELSE IF voteError.isError /\ Includes(voteError.message, NotRegisteredPart)
    THEN [u EXCEPT !.error = <<"You must register to vote first">>,
                   !.isRegistered = FALSE]
    ELSE [u EXCEPT !.error = CatchMessage(voteError, <<"Failed to cast vote">>)]

\* mutant: the handler ends without resetting isLoading
castVoteFinally_KeepsLoading(u) == [u EXCEPT !.pc = "idle"]

castVoteFinally(u) == [u EXCEPT !.isLoading = FALSE, !.pc = "idle"]

ui_castVote ==
    /\ ui.pc = "idle"
    /\ ui' = IF ~ui.contract
             THEN [ui EXCEPT !.error = <<"Contract not connected">>]
             ELSE StartLoading(ui, "castVote.vote")
    /\ UNCHANGED chain

ui_castVote_vote ==
    /\ ui.pc = "castVote.vote"
    /\ \E result \in VoteResults :
          LET u == Settled(ui, result)
          IN  ui' = IF result.threw
                    THEN castVoteFinally(castVoteCatch(u, result))
                    ELSE [u EXCEPT !.pc = "castVote.wait"]
    /\ UNCHANGED chain

\* the transaction is confirmed, or wait() throws
ui_castVote_wait ==
    /\ ui.pc = "castVote.wait"
    /\ \E result \in WaitResults :
          LET u == Settled(ui, result)
          IN  ui' = IF result.threw
                    THEN castVoteFinally(castVoteCatch(u, result))
                    ELSE [u EXCEPT !.hasVoted = TRUE,
                                   !.pc = "castVote.loadElectionData"]
    /\ UNCHANGED chain

\* loadElectionData never throws; the error it left is cleared after it
ui_castVote_loadElectionData ==
    /\ ui.pc = "castVote.loadElectionData"
    /\ \E outcome \in LoadElectionDataOutcomes :
          ui' = castVoteFinally(
                    [loadElectionData(Settled(ui, Resolved(FALSE)), outcome)
                        EXCEPT !.error = NoError])
    /\ UNCHANGED chain

\* --- refreshData
refreshDataFinally(u) == [u EXCEPT !.isLoading = FALSE, !.pc = "idle"]

\* without a contract and an account the handler does nothing
ui_refreshData ==
    /\ ui.pc = "idle"
    /\ ui.contract /\ ui.account # Null
    /\ ui' = [ui EXCEPT !.isLoading = TRUE,
                        !.pc = "refreshData.loadUserData",
                        !.settled = NoSettled, !.awaited = "none"]
    /\ UNCHANGED chain

ui_refreshData_loadUserData ==
    /\ ui.pc = "refreshData.loadUserData"
    /\ \E outcome \in LoadUserDataOutcomes :
          ui' = [loadUserData(Settled(ui, Resolved(FALSE)), outcome)
                    EXCEPT !.pc = "refreshData.loadElectionData"]
    /\ UNCHANGED chain

ui_refreshData_loadElectionData ==
    /\ ui.pc = "refreshData.loadElectionData"
    /\ \E outcome \in LoadElectionDataOutcomes :
          ui' = refreshDataFinally(
                    loadElectionData(Settled(ui, Resolved(FALSE)), outcome))
    /\ UNCHANGED chain

\* --- the page on its own
\* a handler is started (a click, or the page opening with a wallet)
StartHandler ==
    \/ ui_connectWallet
    \/ ui_registerToVote
    \/ ui_castVote
    \/ ui_refreshData

\* the call a handler awaits settles and the handler runs on
AwaitSettles ==
    \/ ui_connectWallet_getAddress
    \/ ui_connectWallet_getCode
    \/ ui_connectWallet_admin
    \/ ui_connectWallet_loadUserData
    \/ ui_connectWallet_loadElectionData
    \/ ui_registerToVote_registeredVoters
    \/ ui_registerToVote_registerToVote
    \/ ui_registerToVote_wait
    \/ ui_registerToVote_loadUserData
    \/ ui_castVote_vote
    \/ ui_castVote_wait
    \/ ui_castVote_loadElectionData
    \/ ui_refreshData_loadUserData
    \/ ui_refreshData_loadElectionData

NextFrontend == StartHandler \/ AwaitSettles

\* every awaited call settles in the end; nothing makes a user click
SpecFrontend == Init /\ [][NextFrontend]_vars /\ WF_vars(AwaitSettles)

\* the positions of the three handlers that report through isLoading
CallPositions ==
    {"castVote.vote", "castVote.wait", "castVote.loadElectionData",
     "registerToVote.registeredVoters", "registerToVote.registerToVote",
     "registerToVote.wait", "registerToVote.loadUserData",
     "refreshData.loadUserData", "refreshData.loadElectionData"}
Positions ==
    CallPositions \cup
    {"idle", "connectWallet.getAddress", "connectWallet.getCode",
     "connectWallet.admin", "connectWallet.loadUserData",
     "connectWallet.loadElectionData"}

UiTypeOK ==
    /\ ui.account \in Addresses \cup {Null}
    /\ ui.contract \in BOOLEAN
    /\ ui.isRegistered \in BOOLEAN
    /\ ui.hasVoted \in BOOLEAN
    /\ ui.isLoading \in BOOLEAN
    /\ ui.pc \in Positions
    /\ ui.awaited \in Positions \cup {"none"}
    /\ ui.settled.threw \in BOOLEAN
    /\ ui.isLoading = (ui.pc # "idle")

\* ------------------------------------------------------------------- C38
\* C38: in the front end, a castVote whose transaction is rejected with the
\* already-voted error sets the local hasVoted flag to true, one rejected
\* with the not-registered error sets the local isRegistered flag to false,
\* and a confirmed vote sets hasVoted to true; no other failure of castVote
\* sets hasVoted to true: every other step of castVote leaves the flag as
\* it was.
C38_CastVoteFlags ==
    [][LET sending == ui.pc \in {"castVote.vote", "castVote.wait"}
           rejected == sending /\ ui'.settled.threw
           confirmed == ui.pc = "castVote.wait" /\ ~ui'.settled.threw
           inCastVote ==
               \/ ui.pc \in {"castVote.vote", "castVote.wait",
                             "castVote.loadElectionData"}
               \/ ui'.pc = "castVote.vote"
       IN  /\ rejected /\ ui'.settled = RevertError(AlreadyVoted)
                => ui'.hasVoted
           /\ rejected /\ ui'.settled = RevertError(NotRegistered)
                => ~ui'.isRegistered
           /\ confirmed => ui'.hasVoted
           /\ inCastVote /\ ~confirmed
                /\ ui'.settled # RevertError(AlreadyVoted)
                => ui'.hasVoted = ui.hasVoted]_vars

\* castVote has ended on the already-voted rejection of its transaction and
\* the flag is set
C38_Witness ==
    /\ ui.pc = "idle"
    /\ ui.awaited = "castVote.vote"
    /\ ui.settled = RevertError(AlreadyVoted)
    /\ ui.hasVoted
    /\ ui.error = <<AlreadyVoted>>

\* ------------------------------------------------------------------- C39
\* C39: in the front end, every castVote, registerToVote and refreshData
\* call that has set isLoading to true sets it back to false when it ends,
\* and it does end (on success, on the already-registered early return and
\* on every error path) provided each call it awaits settles.
C39_LoadingIsReset ==
    /\ [][ui.pc \in CallPositions /\ ui'.pc = "idle" => ~ui'.isLoading]_vars
    /\ (ui.pc \in CallPositions /\ ui.isLoading)
          ~> (ui.pc = "idle" /\ ~ui.isLoading)

\* registerToVote has taken its early return, the account being registered
\* already, and isLoading is false again
C39_Witness ==
    /\ ui.pc = "idle"
    /\ ui.awaited = "registerToVote.registeredVoters"
    /\ ui.settled = Resolved(TRUE)
    /\ ui.isRegistered
    /\ ~ui.isLoading

====
